---- MODULE Spec2Model ----
(***************************************************************************)
(* A model of holm: file-system based routing on top of FastAPI.           *)
(*                                                                         *)
(* Text (paths, URLs, package names) is modelled as a sequence of          *)
(* one-character strings, so that slicing, splitting and prefix tests are  *)
(* computed character by character the way the Python code computes them.  *)
(***************************************************************************)
EXTENDS Integers, Sequences, FiniteSets, TLC

VARIABLES
    stack,         \* configuration: the packages of the frames of the call stack
    config,        \* AppConfig of the run
    package_dir,   \* discovery: the directory under inspection (tuple of path segments)
    stems,         \* discovery: base names of the *.py files in that directory
    package,       \* discovery: result of PackageInfo.from_marker_file
    packages,      \* discovery: result of _discover_app_packages
    order,         \* tree: the packages in the order _build_app_tree iterates over them
    n_added,       \* tree: number of root.add calls that returned
    tree,          \* tree: the AppNode tree, node id (keys from the root) -> node
    error,         \* tree: the exception that ended the build, "" when none
    owner,         \* metadata: the metadata attribute of a module or action descriptor
    metadata_dep,  \* metadata: the dependency get_metadata_dependency returned
    resolved,      \* metadata: the values the dependency produced, one per request
    modules,       \* app: the contents of the package directories of the application
    app_routes,    \* app: the routes of the router _build_api returned, in order
    route,         \* request: the route that serves the request
    page_result,   \* request: the value of the page (submit handler, action) dependency
    metadata_result, \* request: the value of the metadata dependency
    layout_factory, \* request: the layout factory of the layout dependency
    pending,       \* request: the layouts of the factory that were not called yet
    cur_props,     \* request: the props on their way to the next layout
    calls,         \* request: the layout functions called so far
    handed,        \* request: what the handler returned to the rendering decorator
    rendered,      \* request: the outcome of rendering
    action_descriptors, \* actions: the registry of action descriptors of each module
    registrations, \* actions: the decorator applications so far, in order
    request,       \* actions: the path and method of the request
    log,           \* build: the modules whose failed import was logged as a warning
    exception_handlers, \* build: the keys of the registered error handlers
    error_response, \* error handling: what the wrapped error handler did
    propagated,    \* error handling: the exception a request ended with
    pc             \* position of the run

pkgVars == <<package_dir, stems, package, stack>>
treeVars == <<order, n_added, tree, error>>
metaVars == <<owner, metadata_dep, resolved>>
appVars == <<modules, app_routes>>
reqVars == <<route, page_result, metadata_result, layout_factory, pending, cur_props,
             calls, handed, rendered>>
actVars == <<action_descriptors, registrations, request>>
errVars == <<log, exception_handlers, error_response, propagated>>
vars == <<config, pkgVars, packages, treeVars, metaVars, appVars, reqVars, actVars,
          errVars, pc>>

--------------------------------------------------------------------------
(* Python str operations on character sequences *)

\* str.startswith
StartsWith(s, p) == Len(p) <= Len(s) /\ SubSeq(s, 1, Len(p)) = p

\* str.endswith
EndsWith(s, p) == Len(p) <= Len(s) /\ SubSeq(s, Len(s) - Len(p) + 1, Len(s)) = p

\* s[n:]
SliceFrom(s, n) == IF n >= Len(s) THEN <<>> ELSE SubSeq(s, n + 1, Len(s))

\* str.removeprefix
RemovePrefix(s, p) == IF StartsWith(s, p) THEN SliceFrom(s, Len(p)) ELSE s

\* str.replace for single characters
Replace(s, old, new) == [i \in 1..Len(s) |-> IF s[i] = old THEN new ELSE s[i]]

\* position of the first occurrence of character c in s, 0 when absent
RECURSIVE IndexOf(_, _, _)
IndexOf(s, c, i) ==
    IF i > Len(s) THEN 0
    ELSE IF s[i] = c THEN i
    ELSE IndexOf(s, c, i + 1)

\* str.split(sep, maxsplit); maxsplit = -1 splits everywhere
RECURSIVE SplitMax(_, _, _)
SplitMax(s, sep, maxsplit) ==
    LET i == IndexOf(s, sep, 1) IN
    IF i = 0 \/ maxsplit = 0 THEN <<s>>
    ELSE <<SubSeq(s, 1, i - 1)>> \o SplitMax(SliceFrom(s, i), sep, maxsplit - 1)

Split(s, sep) == SplitMax(s, sep, -1)

\* sep.join(parts)
RECURSIVE Join(_, _)
Join(parts, sep) ==
    IF Len(parts) = 0 THEN <<>>
    ELSE IF Len(parts) = 1 THEN parts[1]
    ELSE parts[1] \o <<sep>> \o Join(Tail(parts), sep)

--------------------------------------------------------------------------
(* Bounds and input sets *)

\* deepest directory below the application directory that is enumerated
MaxDepth == 2

\* directory names: plain, dynamic (_name_), private (_name), dotted, and the
\* boundary shapes of the _name_ rule (one, two and three underscores)
Segments ==
    { <<"a">>, <<"a", "b">>, <<"_">>, <<"_", "_">>, <<"_", "_", "_">>,
      <<"_", "a", "_">>, <<"_", "a", "b", "_">>, <<"_", "a">>, <<"a", "_">>,
      <<".", "a">>, <<"{", "a", "}">> }

RECURSIVE PathsUpTo(_)
PathsUpTo(n) ==
    IF n = 0 THEN {<<>>}
    ELSE LET shorter == PathsUpTo(n - 1) IN
         shorter \cup {Append(p, s) : p \in {q \in shorter : Len(q) = n - 1}, s \in Segments}

\* the *.py base names that may be present in a directory (compared as whole
\* names only, hence atomic)
FileStems == {"page", "layout", "main"}

\* names of the application package: a wrapped application and one that is not
\* wrapped in a Python package
AppDirNames == {<<"a", "p", "p">>, <<>>}

--------------------------------------------------------------------------
(* AppConfig and PackageInfo (holm/_model.py) *)

\* recognized role names of marker files
module_names == {"page", "layout", "actions", "api", "error"}

\* AppConfig.default, given the detected application package name
AppConfig(app_dir_name) ==
    [ app_dir_name |-> app_dir_name,
      app_url_prefix_length |->
          IF Len(app_dir_name) > 0 THEN Len(app_dir_name) + 1 ELSE 0,
      \* app_dir relative to root_dir, as path parts
      app_dir |-> IF Len(app_dir_name) > 0 THEN <<app_dir_name>> ELSE <<>> ]

\* __name__.split(".")[0] in holm/_model.py
lib_root == <<"h", "o", "l", "m">>

\* a frame of inspect.stack(): whether inspect.getmodule and __package__ give
\* a package name, and that name
Frame(caller_package) == [has_package |-> TRUE, caller_package |-> caller_package]

\* a frame whose module is unknown or whose __package__ is None
FrameWithoutPackage == [has_package |-> FALSE, caller_package |-> <<>>]

\* what _find_app_package_name ends with: a return value or the ValueError
Found(name) == [found |-> TRUE, name |-> name]

CouldNotDetermine == [found |-> FALSE, name |-> <<>>]

\* the loop of _find_app_package_name from the frame at position i (the
\* Python index i - 1)
RECURSIVE FindFrom(_, _)
FindFrom(frames, i) ==
    IF i > Len(frames) THEN CouldNotDetermine
    ELSE IF ~frames[i].has_package THEN CouldNotDetermine
    ELSE IF ~StartsWith(frames[i].caller_package, lib_root)
         THEN Found(frames[i].caller_package)
    ELSE FindFrom(frames, i + 1)

\* AppConfig._find_app_package_name: the walk starts at stack[1], the caller
\* of the method itself
_find_app_package_name(frames) == FindFrom(frames, 2)

\* str(Path): the parts joined by "/", "." for the empty relative path
PathStr(parts) == IF Len(parts) = 0 THEN <<".">> ELSE Join(parts, "/")

\* a rewriting that forgets that a dynamic segment needs a name: __ becomes {}
UrlSegment_AnyLength(p) ==
    IF Len(p) >= 2 /\ p[1] = "_" /\ p[Len(p)] = "_"
    THEN <<"{">> \o SubSeq(p, 2, Len(p) - 1) \o <<"}">>
    ELSE p

\* rewriting of one URL segment: _name_ becomes {name}
UrlSegment(p) ==
    IF Len(p) > 2 /\ p[1] = "_" /\ p[Len(p)] = "_"
    THEN <<"{">> \o SubSeq(p, 2, Len(p) - 1) \o <<"}">>
    ELSE p

\* PackageInfo.from_marker_file; dir is file_path.relative_to(root_dir).parent
from_marker_file(dir, cfg) ==
    LET package_dir_str == PathStr(dir)
        package_name == Replace(package_dir_str, "/", ".")
        base == IF package_dir_str = <<".">> THEN <<"/">>
                ELSE <<"/">> \o SliceFrom(package_dir_str, cfg.app_url_prefix_length)
        segs == Split(base, "/")
        url == Join([i \in 1..Len(segs) |-> UrlSegment(segs[i])], "/")
    IN [package_dir |-> dir, package_name |-> package_name, url |-> url]

\* the absent package (None)
NoPackage == [package_dir |-> <<>>, package_name |-> <<>>, url |-> <<>>]

--------------------------------------------------------------------------
(* Package discovery (holm/app.py) *)

\* an exclusion that drops every segment starting with an underscore, the
\* path-parameter directories included
is_excluded_AllUnderscore(path) ==
    \E i \in 1..Len(path) :
        StartsWith(path[i], <<"_">>) \/ StartsWith(path[i], <<".">>)

\* is_excluded of _discover_app_packages, on the parts of a relative path
is_excluded(path) ==
    \E i \in 1..Len(path) :
        \/ (StartsWith(path[i], <<"_">>) /\ ~EndsWith(path[i], <<"_">>))
        \/ StartsWith(path[i], <<".">>)

\* the *.py files of a directory, each [dir, stem] with dir relative to root_dir
FilesIn(dir, file_stems) == {[dir |-> dir, stem |-> st] : st \in file_stems}

\* _discover_app_packages over the *.py files below root_dir
_discover_app_packages(cfg, files) ==
    { from_marker_file(f.dir, cfg) :
        f \in {g \in files : /\ StartsWith(g.dir, cfg.app_dir)  \* app_dir.rglob
                             /\ g.stem \in module_names
                             /\ ~is_excluded(g.dir)} }

\* the directories config.app_dir.rglob can visit
AppDirs(cfg) == {cfg.app_dir \o sub : sub \in PathsUpTo(MaxDepth)}

--------------------------------------------------------------------------
(* AppNode (holm/_model.py) and _build_app_tree (holm/app.py) *)

\* AppNode(url): a node without package; the subtree dict is represented by the
\* node ids of the tree (a child's id is its parent's id plus its subtree key)
AppNode(url) == [url |-> url, package |-> NoPackage]

RootId == <<>>

\* AppNode("/") of _build_app_tree
RootTree == (RootId :> AppNode(<<"/">>))

\* an add that silently replaces the package of the node
SetPackage_Overwrite(node, item) ==
    [node |-> [node EXCEPT !.package = item], error |-> ""]

\* a node that ignores a second package
SetPackage_KeepsFirst(node, item) ==
    IF node.package # NoPackage
    THEN [node |-> node, error |-> ""]
    ELSE [node |-> [node EXCEPT !.package = item], error |-> ""]

\* AppNode.add, item.url == self_url: the package is set once
SetPackage(node, item) ==
    IF node.package # NoPackage
    THEN [node |-> node, error |-> "ValueError: Package already set"]
    ELSE [node |-> [node EXCEPT !.package = item], error |-> ""]

\* a child URL that forgets the URL of its parent
ChildUrl_NoPrefix(url_prefix, first_segment) == first_segment

\* AppNode.add: URL of a newly created child node
ChildUrl(url_prefix, first_segment) == url_prefix \o first_segment

\* a lookup that puts a fresh node in the place of the child it finds
GetChild_AlwaysNew(t, child, url) == (child :> AppNode(url)) @@ t

\* AppNode.add: self.subtree.get(first_segment), a node being created when
\* there is none under that key
GetChild(t, child, url) ==
    IF child \in DOMAIN t THEN t ELSE t @@ (child :> AppNode(url))

\* AppNode.add on the node id of tree t; yields the tree and the exception raised
RECURSIVE Add(_, _, _)
Add(t, id, item) ==
    LET self_url == t[id].url IN
    IF ~StartsWith(item.url, self_url)
    THEN [tree |-> t, error |-> "ValueError: must start with"]
    ELSE IF item.url = self_url
    THEN LET r == SetPackage(t[id], item) IN
         [tree |-> [t EXCEPT ![id] = r.node], error |-> r.error]
    ELSE
        LET is_root == self_url = <<"/">>
            sub_url == IF is_root THEN item.url ELSE RemovePrefix(item.url, self_url)
            url_prefix == IF is_root THEN <<>> ELSE self_url
            parts == SplitMax(sub_url, "/", 2)
        IN
        IF Len(parts) < 2
        THEN [tree |-> t, error |-> "IndexError"]
        ELSE
            LET first_segment == <<"/">> \o parts[2]
                child == Append(id, first_segment)
                t2 == GetChild(t, child, ChildUrl(url_prefix, first_segment))
            IN Add(t2, child, item)

\* the tree has no nodes before _build_app_tree runs
NoTree == (RootId :> AppNode(<<>>))

--------------------------------------------------------------------------
(* Metadata (holm/module_options/_metadata.py) *)

\* a metadata value: None, or a mapping given by its set of <<key, value>> items
MetaNone == [is_none |-> TRUE, items |-> {}]

MetaMap(items) == [is_none |-> FALSE, items |-> items]

\* the metadata attribute of an owner: its shape and, for a mapping, its items
MetadataAttr(shape, items) == [shape |-> shape, items |-> items]

NoMetadataAttr == MetadataAttr("absent", {})

\* isinstance(metadata, Mapping)
IsMapping(m) == m.shape \in {"mapping", "callable_mapping"}

\* callable(metadata)
IsCallable(m) == m.shape \in {"callable", "callable_mapping"}

\* getattr(obj, "metadata", None) is None
IsNone(m) == m.shape \in {"absent", "None"}

\* the dependencies get_metadata_dependency can return
empty_metadata_dep == [kind |-> "empty_metadata_dep", obj |-> NoMetadataAttr]

ConstantDep(m) == [kind |-> "lambda", obj |-> m]

ObjectDep(m) == [kind |-> "object", obj |-> m]

NoDep == [kind |-> "", obj |-> NoMetadataAttr]

\* a get_metadata_dependency that tests the truth value of the attribute
get_metadata_dependency_Truthy(m) ==
    IF IsNone(m) \/ (IsMapping(m) /\ m.items = {})
    THEN [dep |-> empty_metadata_dep, error |-> ""]
    ELSE IF IsMapping(m) THEN [dep |-> ConstantDep(m), error |-> ""]
    ELSE IF IsCallable(m) THEN [dep |-> ObjectDep(m), error |-> ""]
    ELSE [dep |-> NoDep, error |-> "ValueError: Invalid metadata object"]

\* get_metadata_dependency(obj), m being the metadata attribute of obj
get_metadata_dependency(m) ==
    IF IsNone(m) THEN [dep |-> empty_metadata_dep, error |-> ""]
    ELSE IF IsMapping(m) THEN [dep |-> ConstantDep(m), error |-> ""]
    ELSE IF IsCallable(m) THEN [dep |-> ObjectDep(m), error |-> ""]
    ELSE [dep |-> NoDep, error |-> "ValueError: Invalid metadata object"]

\* the value a metadata dependency produces for a request; produced is what
\* the application's own resolver returns for that request
CallMetadataDep(dep, produced) ==
    IF dep.kind = "empty_metadata_dep" THEN MetaNone
    ELSE IF dep.kind = "lambda" THEN MetaMap(dep.obj.items)
    ELSE produced

\* what an application's metadata resolver may return
MetadataResults == {MetaNone, MetaMap({}), MetaMap({<<"title", "Y">>})}

\* Metadata.__init__: the mapping held by the context-aware provider
Metadata(metadata) == IF metadata.is_none THEN MetaMap({}) ELSE metadata

\* Metadata.get(key, default)
MetadataGet(md, key, default) ==
    IF md.is_none THEN "AttributeError"
    ELSE IF \E it \in md.items : it[1] = key
         THEN (CHOOSE it \in md.items : it[1] = key)[2]
         ELSE default

--------------------------------------------------------------------------
(* Values that pages, layouts and actions return *)

\* an htmy component (also a props mapping: anything that is not listed below)
Component(id) == [tag |-> "component", id |-> id, kids |-> <<>>]

\* a ComponentSequence: a tuple or list of components
ComponentSequence(c) == [tag |-> "sequence", id |-> "", kids |-> <<c>>]

\* htmy.Fragment(*children)
Fragment(children) == [tag |-> "Fragment", id |-> "", kids |-> children]

\* a fastapi Response
Response(id) == [tag |-> "Response", id |-> id, kids |-> <<>>]

\* without_layout(component), the stop-wrapping marker
without_layout(c) == [tag |-> "without_layout", id |-> "", kids |-> <<c>>]

\* a pending result: the coroutine an async function returns
Awaitable(v) == [tag |-> "awaitable", id |-> "", kids |-> <<v>>]

\* what the layout at a directory makes of its props
Element(id, props) == [tag |-> "layout", id |-> id, kids |-> <<props>>]

NoValue == [tag |-> "None", id |-> "", kids |-> <<>>]

\* htmy.as_component_type: a component sequence becomes one Fragment
as_component_type(c) == IF c.tag = "sequence" THEN Fragment(c.kids) ELSE c

\* isinstance(x, without_layout)
IsWithoutLayout(v) == v.tag = "without_layout"

\* isinstance(x, Response)
IsResponse(v) == v.tag = "Response"

\* if inspect.isawaitable(x): x = await x
AwaitIfAwaitable(v) == IF v.tag = "awaitable" THEN v.kids[1] ELSE v

--------------------------------------------------------------------------
(* Layout composition (holm/modules/_layout.py) *)

\* a layout function of a layout module
Layout(id, is_async) == [id |-> id, is_async |-> is_async, has_props |-> TRUE]

\* a layout function that declares no parameter (or only self)
LayoutWithoutProps(id) == [id |-> id, is_async |-> FALSE, has_props |-> FALSE]

\* a layout_to_dependency that does not inspect the parameters of the layout
layout_to_dependency_Unchecked(layout) == [dep |-> layout, error |-> ""]

\* layout_to_dependency(layout): the dependency of the layout factory, or the
\* exception raised for a layout without a props parameter
layout_to_dependency(layout) ==
    [dep |-> layout,
     error |-> IF layout.has_props THEN ""
               ELSE "ValueError: Layout factory must at least one argument."]

NoLayout == Layout("", FALSE)

\* what a layout function may do in a request
LayoutOutcomes == {"component", "sequence", "without_layout"}

\* the body of an application's layout function
LayoutBody(layout, props, outcome) ==
    IF outcome = "component" THEN Element(layout.id, props)
    ELSE IF outcome = "sequence" THEN ComponentSequence(Element(layout.id, props))
    ELSE without_layout(Element(layout.id, props))

\* the layout_factory of layout_to_dependency(layout), called with props: a
\* coroutine for a coroutine function, the value of the layout otherwise
LayoutFactoryCall(layout, props, outcome) ==
    IF layout.is_async
    THEN Awaitable(LayoutBody(layout, props, outcome))
    ELSE LayoutBody(layout, props, outcome)

\* empty_layout_dependency: the factory of no layouts. A layout dependency is
\* the sequence of the layouts it combines, the outermost first.
empty_layout_dependency == <<>>

\* a combination that applies the new layout outside the inherited ones
combine_layouts_to_dependency_Outside(outer_dep, inner) ==
    IF inner = NoLayout THEN outer_dep ELSE <<inner>> \o outer_dep

\* a combination that wraps also when there is no inner layout
combine_layouts_to_dependency_Always(outer_dep, inner) == Append(outer_dep, inner)

\* combine_layouts_to_dependency(outer_dep, inner)
combine_layouts_to_dependency(outer_dep, inner) ==
    IF inner = NoLayout THEN outer_dep ELSE Append(outer_dep, inner)

\* a step that hands the marker on to the outer layout
InnerStep_KeepWrapping(inner, props, outcome) ==
    LET inner_result == AwaitIfAwaitable(LayoutFactoryCall(inner, props, outcome)) IN
    IF IsWithoutLayout(inner_result)
    THEN [stop |-> FALSE, value |-> as_component_type(inner_result.kids[1])]
    ELSE [stop |-> FALSE, value |-> as_component_type(inner_result)]

\* a step that does not await the result of the inner layout
InnerStep_NotAwaited(inner, props, outcome) ==
    LET inner_result == LayoutFactoryCall(inner, props, outcome) IN
    IF IsWithoutLayout(inner_result)
    THEN [stop |-> TRUE, value |-> inner_result.kids[1]]
    ELSE [stop |-> FALSE, value |-> as_component_type(inner_result)]

\* combined_layout_dep.layout_factory up to its call of outer: the inner
\* layout is called and awaited; a marker ends the composition with its
\* component, anything else is normalized for the outer layout
InnerStep(inner, props, outcome) ==
    LET inner_result == AwaitIfAwaitable(LayoutFactoryCall(inner, props, outcome)) IN
    IF IsWithoutLayout(inner_result)
    THEN [stop |-> TRUE, value |-> inner_result.kids[1]]
    ELSE [stop |-> FALSE, value |-> as_component_type(inner_result)]

\* the layout factory of a layout dependency called with props, when the
\* layout with id i does outcome_of[i]: empty_layout returns the props; a
\* combined factory calls its inner layout and, unless that returned the
\* marker, its outer factory with the result, awaiting what it gets
RECURSIVE CallLayoutFactory(_, _, _)
CallLayoutFactory(dep, props, outcome_of) ==
    IF dep = empty_layout_dependency THEN props
    ELSE LET inner == dep[Len(dep)]
             r == InnerStep(inner, props, outcome_of[inner.id])
         IN IF r.stop THEN r.value
            ELSE AwaitIfAwaitable(
                     CallLayoutFactory(SubSeq(dep, 1, Len(dep) - 1), r.value, outcome_of))

\* the way back through n combined layout factories: each is a coroutine
\* function, so its caller receives a coroutine and awaits it
RECURSIVE ReturnThrough(_, _)
ReturnThrough(n, v) ==
    IF n = 0 THEN v ELSE ReturnThrough(n - 1, AwaitIfAwaitable(Awaitable(v)))

--------------------------------------------------------------------------
(* Modules of an application *)

\* a page module: page is always callable here; handle_submit may be missing
PageModule(name, has_submit, metadata, actions) ==
    [name |-> name, handle_submit |-> has_submit, metadata |-> metadata,
     actions |-> actions]

NoModule == PageModule(<<>>, FALSE, NoMetadataAttr, {})

\* an optional argument: None, or a value
PyNone == [is_none |-> TRUE, value |-> <<>>]
Some(v) == [is_none |-> FALSE, value |-> v]

\* a function object: __module__, __name__ and its identity
Function(module, name, id) == [module |-> module, name |-> name, id |-> id]

\* a registration that starts a new registry every time
_register_action_NewRegistry(module_actions, action, use_layout, metadata, path, tags, methods) ==
    {[path |-> IF path.is_none THEN <<"/">> \o action.name ELSE path.value,
      action |-> action,
      route_args |-> [methods |-> methods,
                      name |-> action.module \o <<".">> \o action.name,
                      tags |-> IF tags.is_none THEN <<"Action">> ELSE tags.value,
                      response_model |-> "None"],
      use_layout |-> use_layout, metadata |-> metadata]}

\* a registration that takes an empty list of tags for no tags
_register_action_FalsyTags(module_actions, action, use_layout, metadata, path, tags, methods) ==
    {d \in module_actions : d.path # (IF path.is_none THEN <<"/">> \o action.name ELSE path.value)}
    \cup {[path |-> IF path.is_none THEN <<"/">> \o action.name ELSE path.value,
            action |-> action,
            route_args |-> [methods |-> methods,
                            name |-> action.module \o <<".">> \o action.name,
                            tags |-> IF tags.is_none \/ tags.value = <<>>
                                     THEN <<"Action">> ELSE tags.value,
                            response_model |-> "None"],
            use_layout |-> use_layout, metadata |-> metadata]}

\* action._register_action on the registry of the action's module: a dict
\* from path to ActionDescriptor, here the set of the descriptors with the
\* path each is stored under (the empty set also stands for no registry yet)
_register_action(module_actions, action, use_layout, metadata, path, tags, methods) ==
    LET action_module == action.module
        action_name == action.name
        key == IF path.is_none THEN <<"/">> \o action_name ELSE path.value
        route_args ==
            [methods |-> methods,
             name |-> action_module \o <<".">> \o action_name,
             tags |-> IF tags.is_none THEN <<"Action">> ELSE tags.value,
             response_model |-> "None"]
    IN {d \in module_actions : d.path # key}
       \cup {[path |-> key, action |-> action, route_args |-> route_args,
               use_layout |-> use_layout, metadata |-> metadata]}

\* the ActionDescriptor of a function decorated once, with an explicit path
\* and no tags, as action._register_action stores it
ActionDescriptor(path, action, method, use_layout, metadata) ==
    CHOOSE d \in _register_action({}, action, use_layout, metadata, Some(path), PyNone,
                                  <<method>>) : TRUE

\* the contents of a package directory
\* the api attribute of an api module: nothing, an APIRouter, a callable with
\* its number of parameters and what it returns, or something else
ApiAttr(shape, num_params, returns) ==
    [shape |-> shape, num_params |-> num_params, returns |-> returns]

\* there is no api.py
NoApi == ApiAttr("absent", 0, "")

\* the handlers attribute of an error module: nothing, a mapping from keys
\* (exception types, status codes) to handlers, a callable that returns such
\* a mapping, or something else
HandlersAttr(shape, keys) == [shape |-> shape, keys |-> keys]

\* there is no error.py
NoHandlers == HandlersAttr("absent", {})

\* the contents of a package directory: what its modules define, the modules
\* whose import raises, and the modules that import but whose layout or page
\* attribute is missing or not callable
PackageFiles(layout, page, actions, api, handlers, raises, not_callable) ==
    [layout |-> layout, page |-> page, actions |-> actions, api |-> api,
     handlers |-> handlers, raises |-> raises, not_callable |-> not_callable]

\* a package directory of modules that import and are valid, without api.py
\* and error.py
Package(layout, page, actions) ==
    PackageFiles(layout, page, actions, NoApi, NoHandlers, {}, {})

\* the directory holds none of layout.py, page.py, actions.py
NoFiles == Package(NoLayout, NoModule, NoModule)

\* (package_dir / f"{name}.py").is_file()
IsFile(p, name) ==
    IF name = "layout" THEN p.layout # NoLayout
    ELSE IF name = "page" THEN p.page # NoModule
    ELSE IF name = "actions" THEN p.actions # NoModule
    ELSE IF name = "api" THEN p.api # NoApi
    ELSE IF name = "error" THEN p.handlers # NoHandlers
    ELSE FALSE

\* the validators import_module is called with: is_layout_definition,
\* is_page_definition, has_actions, is_api_definition, is_error_handler_owner
Validate(p, name) ==
    IF name \in {"layout", "page"} THEN name \notin p.not_callable
    ELSE IF name = "actions" THEN p.actions.actions # {}
    ELSE IF name = "api" THEN p.api.shape \in {"APIRouter", "callable"}
    ELSE p.handlers.shape \in {"mapping", "callable"}

\* the result of import_module: whether a module was returned, the exception
\* raised, and the warnings logged
Imported(module, err, warnings) == [module |-> module, error |-> err, warnings |-> warnings]

\* an import_module that lets the exception of the import through
import_module_Raises(p, name) ==
    IF ~IsFile(p, name) THEN Imported(FALSE, "", <<>>)
    ELSE IF name \in p.raises THEN Imported(FALSE, "ImportError", <<>>)
    ELSE IF ~Validate(p, name) THEN Imported(FALSE, "ValueError: Invalid module", <<>>)
    ELSE Imported(TRUE, "", <<>>)

\* an import_module that returns the module without validating it
import_module_Unvalidated(p, name) ==
    IF ~IsFile(p, name) THEN Imported(FALSE, "", <<>>)
    ELSE IF name \in p.raises THEN Imported(FALSE, "", <<name>>)
    ELSE Imported(TRUE, "", <<>>)

\* PackageInfo.import_module(name, validate) in the package directory p
import_module(p, name) ==
    IF ~IsFile(p, name) THEN Imported(FALSE, "", <<>>)
    ELSE IF name \in p.raises THEN Imported(FALSE, "", <<name>>)
    ELSE IF ~Validate(p, name) THEN Imported(FALSE, "ValueError: Invalid module", <<>>)
    ELSE Imported(TRUE, "", <<>>)

\* the *.py files of an application given by its directories
FilesOf(mods) ==
    {[dir |-> d, stem |-> name] :
        d \in DOMAIN mods, name \in {"layout", "page", "actions", "api", "error"}}
    \ {f \in [dir : DOMAIN mods, stem : {"layout", "page", "actions", "api", "error"}] :
          ~IsFile(mods[f.dir], f.stem)}

--------------------------------------------------------------------------
(* Route binding (holm/app.py) *)

\* some enumeration of a finite set
RECURSIVE SetToSeq(_)
SetToSeq(S) ==
    IF S = {} THEN <<>>
    ELSE LET x == CHOOSE y \in S : TRUE IN <<x>> \o SetToSeq(S \ {x})

\* a registered route. kind "page" is _make_page_path_operation rendered
\* through components_with_metadata, kind "plain" is the action itself
\* rendered by htmy.page()
Route(path, method, name, tags, kind, layout_d, metadata_d, page_d, dir) ==
    [path |-> path, method |-> method, name |-> name, tags |-> tags, kind |-> kind,
     layout_dep |-> layout_d, metadata_dep |-> metadata_d, page_dep |-> page_d,
     dir |-> dir]

NoRoute ==
    Route(<<>>, "", <<>>, <<>>, "", empty_layout_dependency, NoDep, "", <<>>)

\* the route of one action descriptor, registered without the layout chain
ActionRoute_NoLayout(desc, layout_dep, dir) ==
    IF desc.use_layout \/ ~IsNone(desc.metadata)
    THEN Route(desc.path, desc.route_args.methods[1], desc.route_args.name,
               desc.route_args.tags, "page",
               empty_layout_dependency,
               get_metadata_dependency(desc.metadata).dep, desc.action.id, dir)
    ELSE Route(desc.path, desc.route_args.methods[1], desc.route_args.name,
               desc.route_args.tags, "plain",
               empty_layout_dependency, NoDep, desc.action.id, dir)

\* _build_api, the registration of one action descriptor
ActionRoute(desc, layout_dep, dir) ==
    IF desc.use_layout \/ ~IsNone(desc.metadata)
    THEN Route(desc.path, desc.route_args.methods[1], desc.route_args.name,
               desc.route_args.tags, "page",
               IF desc.use_layout THEN layout_dep ELSE empty_layout_dependency,
               get_metadata_dependency(desc.metadata).dep, desc.action.id, dir)
    ELSE Route(desc.path, desc.route_args.methods[1], desc.route_args.name,
               desc.route_args.tags, "plain",
               empty_layout_dependency, NoDep, desc.action.id, dir)

\* _build_api, the routes of the actions of one action owner
ActionRoutes(module, layout_dep, dir) ==
    LET descs == SetToSeq(module.actions) IN
    [i \in 1..Len(descs) |-> ActionRoute(descs[i], layout_dep, dir)]

\* the configuration error of the metadata declarations of a module, if any
MetadataError(module) ==
    LET errs == {get_metadata_dependency(module.metadata).error}
                \cup {get_metadata_dependency(d.metadata).error :
                         d \in {e \in module.actions : e.use_layout \/ ~IsNone(e.metadata)}}
    IN IF errs \ {""} = {} THEN "" ELSE CHOOSE e \in errs : e # ""

handle_submit_suffix ==
    <<".", "h", "a", "n", "d", "l", "e", "_", "s", "u", "b", "m", "i", "t">>

\* a registration of the submit handler without the layouts of the node
OwnRoutes_SubmitWithoutLayout(pkg, mods, layout_dep) ==
    LET dir == pkg.package_dir
        page_module == mods[dir].page
        page_metadata_dep == get_metadata_dependency(page_module.metadata).dep
    IN
    (IF page_module # NoModule
     THEN <<Route(<<"/">>, "GET", page_module.name, <<"Page">>, "page",
                  layout_dep, page_metadata_dep, "page", dir)>>
     ELSE <<>>)
    \o
    (IF page_module # NoModule /\ page_module.handle_submit
     THEN <<Route(<<"/">>, "POST", page_module.name \o handle_submit_suffix,
                  <<"Page", "Submit">>, "page",
                  empty_layout_dependency, page_metadata_dep, "handle_submit", dir)>>
     ELSE <<>>)
    \o ActionRoutes(page_module, layout_dep, dir)
    \o ActionRoutes(mods[dir].actions, layout_dep, dir)

\* a registration that takes the actions module before the page module
OwnRoutes_ActionsModuleFirst(pkg, mods, layout_dep) ==
    LET dir == pkg.package_dir
        page_module == mods[dir].page
        actions_module == mods[dir].actions
        page_metadata_dep == get_metadata_dependency(page_module.metadata).dep
    IN
    (IF page_module # NoModule
     THEN <<Route(<<"/">>, "GET", page_module.name, <<"Page">>, "page",
                  layout_dep, page_metadata_dep, "page", dir)>>
     ELSE <<>>)
    \o
    (IF page_module # NoModule /\ page_module.handle_submit
     THEN <<Route(<<"/">>, "POST", page_module.name \o handle_submit_suffix,
                  <<"Page", "Submit">>, "page",
                  layout_dep, page_metadata_dep, "handle_submit", dir)>>
     ELSE <<>>)
    \o ActionRoutes(actions_module, layout_dep, dir)
    \o ActionRoutes(page_module, layout_dep, dir)

\* _build_api, the routes a node registers for its own package
OwnRoutes(pkg, mods, layout_dep) ==
    LET dir == pkg.package_dir
        page_module == mods[dir].page
        actions_module == mods[dir].actions
        page_metadata_dep == get_metadata_dependency(page_module.metadata).dep
    IN
    (IF page_module # NoModule
     THEN <<Route(<<"/">>, "GET", page_module.name, <<"Page">>, "page",
                  layout_dep, page_metadata_dep, "page", dir)>>
     ELSE <<>>)
    \o
    (IF page_module # NoModule /\ page_module.handle_submit
     THEN <<Route(<<"/">>, "POST", page_module.name \o handle_submit_suffix,
                  <<"Page", "Submit">>, "page",
                  layout_dep, page_metadata_dep, "handle_submit", dir)>>
     ELSE <<>>)
    \o ActionRoutes(page_module, layout_dep, dir)
    \o ActionRoutes(actions_module, layout_dep, dir)

\* a mount that puts the URL of the child behind the paths of its routes
IncludeRouter_Suffix(routes, prefix) ==
    [i \in 1..Len(routes) |-> [routes[i] EXCEPT !.path = @ \o prefix]]

\* APIRouter.include_router(router, prefix=sub_url)
IncludeRouter(routes, prefix) ==
    [i \in 1..Len(routes) |-> [routes[i] EXCEPT !.path = prefix \o @]]

\* the subtree of a node: the ids of its children
Children(t, id) ==
    {c \in DOMAIN t : Len(c) = Len(id) + 1 /\ SubSeq(c, 1, Len(id)) = id}

\* the routes an api router holds: one route, whose dependency tells how the
\* router was obtained ("api", "api()" or "api(htmy)")
ApiRoutes(how, dir) ==
    <<Route(<<"/", "a", "p", "i">>, "GET", <<"a", "p", "i">>, <<>>, "api",
            empty_layout_dependency, NoDep, how, dir)>>

\* the result of a step of the build: routes, exception, warnings
Result(routes, err, warnings) == [routes |-> routes, error |-> err, warnings |-> warnings]

\* a router creation that calls a factory whatever parameters it declares
_make_api_router_for_package_AnyFactory(p, dir) ==
    LET api_module == import_module(p, "api") IN
    IF ~api_module.module THEN Result(<<>>, api_module.error, api_module.warnings)
    ELSE IF p.api.shape = "APIRouter" THEN Result(ApiRoutes("api", dir), "", <<>>)
    ELSE IF p.api.returns = "APIRouter" THEN Result(ApiRoutes("api(htmy)", dir), "", <<>>)
    ELSE Result(<<>>, "ValueError: The api function must return an APIRouter.", <<>>)

\* _make_api_router_for_package(pkg, htmy) for the package directory p: the
\* routes of the router of the node
_make_api_router_for_package(p, dir) ==
    LET api_module == import_module(p, "api") IN
    IF ~api_module.module THEN Result(<<>>, api_module.error, api_module.warnings)
    ELSE IF p.api.shape = "APIRouter" THEN Result(ApiRoutes("api", dir), "", <<>>)
    ELSE LET api == IF p.api.num_params = 0 THEN [how |-> "api()", is |-> p.api.returns]
                    ELSE IF p.api.num_params = 1
                    THEN [how |-> "api(htmy)", is |-> p.api.returns]
                    ELSE [how |-> "", is |-> "function"]
         IN IF api.is = "APIRouter" THEN Result(ApiRoutes(api.how, dir), "", <<>>)
            ELSE Result(<<>>, "ValueError: The api function must return an APIRouter.", <<>>)

\* the first exception of a sequence of steps, "" when none raised
RECURSIVE FirstError(_)
FirstError(errors) ==
    IF errors = <<>> THEN ""
    ELSE IF Head(errors) # "" THEN Head(errors)
    ELSE FirstError(Tail(errors))

\* _build_api, the part for the package of the node: its router with the
\* routes of the modules that were imported, and the layout dependency its
\* children inherit
BuildPackage(pkg, mods, base_layout_dep) ==
    LET dir == pkg.package_dir
        p == mods[dir]
        api == _make_api_router_for_package(p, dir)
        layout_module == import_module(p, "layout")
        page_module == import_module(p, "page")
        actions_module == import_module(p, "actions")
        inner == IF layout_module.module THEN p.layout ELSE NoLayout
        layout_dep == combine_layouts_to_dependency(base_layout_dep, inner)
        imported == [mods EXCEPT ![dir] =
                        [p EXCEPT !.layout = inner,
                                  !.page = IF page_module.module THEN @ ELSE NoModule,
                                  !.actions = IF actions_module.module THEN @ ELSE NoModule]]
        \* the metadata attribute of actions.py is not read, that of its
        \* action descriptors is
        actions_only == [imported[dir].actions EXCEPT !.metadata = NoMetadataAttr]
        err == FirstError(<<api.error,
                            layout_module.error,
                            page_module.error,
                            actions_module.error,
                            IF inner = NoLayout THEN "" ELSE layout_to_dependency(inner).error,
                            MetadataError(imported[dir].page),
                            MetadataError(actions_only)>>)
        warnings == api.warnings \o layout_module.warnings \o page_module.warnings
                    \o actions_module.warnings
    IN [routes |-> IF err # "" THEN <<>>
                   ELSE api.routes \o OwnRoutes(pkg, imported, layout_dep),
        error |-> err,
        warnings |-> [i \in 1..Len(warnings) |-> [dir |-> dir, name |-> warnings[i]]],
        layout_dep |-> layout_dep]

\* _build_api(node, base_layout_dep): the routes of the router it returns,
\* the configuration error that ended it, if any, and the warnings logged
RECURSIVE _build_api(_, _, _, _)
RECURSIVE IncludeChildren(_, _, _, _, _)
IncludeChildren(t, mods, children, layout_dep, acc) ==
    IF Len(children) = 0 \/ acc.error # "" THEN acc
    ELSE LET sub == _build_api(t, mods, Head(children), layout_dep)
             sub_url == Head(children)[Len(Head(children))]
         IN IncludeChildren(t, mods, Tail(children), layout_dep,
                Result(IF sub.error # "" THEN <<>>
                       ELSE acc.routes \o IncludeRouter(sub.routes, sub_url),
                       sub.error, acc.warnings \o sub.warnings))

_build_api(t, mods, id, base_layout_dep) ==
    LET pkg == t[id].package
        own == IF pkg = NoPackage
               THEN [routes |-> <<>>, error |-> "", warnings |-> <<>>,
                     layout_dep |-> base_layout_dep]
               ELSE BuildPackage(pkg, mods, base_layout_dep)
    IN IncludeChildren(t, mods, SetToSeq(Children(t, id)), own.layout_dep,
                       Result(own.routes, own.error, own.warnings))

\* the error handlers App registers: those of the error module of the root
\* package, each under its key
register_error_handlers(t, mods) ==
    LET pkg == t[RootId].package IN
    IF pkg = NoPackage THEN [keys |-> {}, error |-> "", warnings |-> <<>>]
    ELSE LET owner_module == import_module(mods[pkg.package_dir], "error") IN
         [keys |-> IF owner_module.module THEN mods[pkg.package_dir].handlers.keys ELSE {},
          error |-> owner_module.error,
          warnings |-> [i \in 1..Len(owner_module.warnings) |->
                           [dir |-> pkg.package_dir, name |-> owner_module.warnings[i]]]]

\* _build_app_tree over the packages in the given order
RECURSIVE _build_app_tree(_, _)
_build_app_tree(pkgs, acc) ==
    IF Len(pkgs) = 0 \/ acc.error # "" THEN acc
    ELSE _build_app_tree(Tail(pkgs), Add(acc.tree, RootId, Head(pkgs)))

\* the names of the path parameters of a route path
ParamNames(path) ==
    LET segs == Split(path, "/") IN
    {SubSeq(segs[i], 2, Len(segs[i]) - 1) :
        i \in {k \in 1..Len(segs) : Len(segs[k]) >= 2 /\ Head(segs[k]) = "{"
                                                       /\ segs[k][Len(segs[k])] = "}"}}

NoMatchFound == <<"NoMatchFound">>

\* app.url_path_for(name, **path_params): the path of the first route of
\* that name and those parameters, with the parameters substituted
RECURSIVE url_path_for(_, _, _)
url_path_for(routes, name, path_params) ==
    IF routes = <<>> THEN NoMatchFound
    ELSE IF Head(routes).name = name /\ ParamNames(Head(routes).path) = DOMAIN path_params
    THEN LET segs == Split(Head(routes).path, "/") IN
         Join([i \in 1..Len(segs) |->
                  IF Len(segs[i]) >= 2 /\ Head(segs[i]) = "{" /\ segs[i][Len(segs[i])] = "}"
                  THEN path_params[SubSeq(segs[i], 2, Len(segs[i]) - 1)]
                  ELSE segs[i]], "/")
    ELSE url_path_for(Tail(routes), name, path_params)

--------------------------------------------------------------------------
(* Request handling (holm/app.py, _make_page_path_operation) *)

\* what a page, submit handler or action may return in a request
PageOutcomes == {"component", "sequence", "without_layout", "Response"}

\* the value of the page dependency
PageValue(page_dep, outcome) ==
    IF outcome = "component" THEN Component(page_dep)
    ELSE IF outcome = "sequence" THEN ComponentSequence(Component(page_dep))
    ELSE IF outcome = "without_layout" THEN without_layout(Component(page_dep))
    ELSE Response(page_dep)

\* a path operation that does not look for a Response
PathOperationBranch_NoResponse(p) ==
    IF IsWithoutLayout(p) THEN "without_layout" ELSE "layout"

\* a path operation that does not look for the marker
PathOperationBranch_NoMarker(p) ==
    IF IsResponse(p) THEN "Response" ELSE "layout"

\* path_operation: the branch its body takes for the page value
PathOperationBranch(p) ==
    IF IsResponse(p) THEN "Response"
    ELSE IF IsWithoutLayout(p) THEN "without_layout"
    ELSE "layout"

\* what a handler returns to the rendering decorator: a Response, the tuple
\* (component, metadata) of a page-like route, or the value of a plain action
Handed(kind, content, md) == [kind |-> kind, content |-> content, metadata |-> md]

NotHanded == Handed("", NoValue, MetaNone)

\* return result, metadata
ReturnPair(content, md) == Handed("tuple", content, md)

\* the marker is somewhere in the component tree
RECURSIVE HasMarker(_)
HasMarker(v) ==
    IsWithoutLayout(v) \/ \E i \in 1..Len(v.kids) : HasMarker(v.kids[i])

\* a layout function was applied somewhere in the component tree
RECURSIVE HasLayout(_)
HasLayout(v) ==
    v.tag = "layout" \/ \E i \in 1..Len(v.kids) : HasLayout(v.kids[i])

\* the outcome of rendering: the metadata context the components saw, the
\* title a layout read from it with a default, and the error raised
Rendered(context, title, err) == [context |-> context, title |-> title, error |-> err]

NotRendered == Rendered(MetaNone, "", "")

\* without_layout.htmy raises when the marker is rendered
RenderError(content) ==
    IF HasMarker(content) THEN "RuntimeError: without_layout in the component tree" ELSE ""

\* a rendering that puts the metadata in the context as it came
components_with_metadata_Raw(data) ==
    LET context == data.metadata IN
    Rendered(context,
             IF HasLayout(data.content) THEN MetadataGet(context, "title", "App") ELSE "",
             RenderError(data.content))

\* components_with_metadata and the rendering of its result: the components
\* are rendered in the context of Metadata(metadata); a layout reads
\* metadata.get("title", "App")
components_with_metadata(data) ==
    LET context == Metadata(data.metadata) IN
    Rendered(context,
             IF HasLayout(data.content) THEN MetadataGet(context, "title", "App") ELSE "",
             RenderError(data.content))

\* HTMLResponse(content): the response that carries the rendered content
HTMLResponse(content) == [tag |-> "HTMLResponse", id |-> "", kids |-> <<content>>]

\* what the wrapped handler did: the response it returned, or the exception
\* it raised and the exception that one was raised from
Handled(response, err, cause) == [response |-> response, error |-> err, cause |-> cause]

\* a wrapper that lets the exception of the rendering through
wrap_error_handler_Reraises(result) ==
    IF IsResponse(result) THEN Handled(result, "", "")
    ELSE IF RenderError(result) = "" THEN Handled(HTMLResponse(result), "", "")
    ELSE Handled(NoValue, RenderError(result), "")

\* rendering_error_handler_wrapper of wrap_error_handler, for the value the
\* error handler returned
wrap_error_handler(result) ==
    IF IsResponse(result) THEN Handled(result, "", "")
    ELSE IF RenderError(result) = "" THEN Handled(HTMLResponse(result), "", "")
    ELSE Handled(NoValue, "ValueError: HTML rendering failed.", RenderError(result))

--------------------------------------------------------------------------
(* Idle values of the parts of the state a specification does not use *)

AppIdle == modules = <<>> /\ app_routes = <<>>

ReqIdle ==
    /\ route = NoRoute
    /\ page_result = NoValue
    /\ metadata_result = MetaNone
    /\ layout_factory = empty_layout_dependency
    /\ pending = <<>>
    /\ cur_props = NoValue
    /\ calls = <<>>
    /\ handed = NotHanded
    /\ rendered = NotRendered

\* no exception reached the host framework
NoException == [by |-> "", raised |-> "", error |-> ""]

ErrIdle ==
    /\ log = <<>>
    /\ exception_handlers = {}
    /\ error_response = <<>>
    /\ propagated = NoException

ActIdle == action_descriptors = <<>> /\ registrations = <<>> /\ request = <<>>

MetaIdle == owner = NoMetadataAttr /\ metadata_dep = NoDep /\ resolved = <<>>

PkgIdle == package_dir = <<>> /\ stems = {} /\ package = NoPackage /\ stack = <<>>

TreeIdle == order = <<>> /\ n_added = 0 /\ tree = NoTree /\ error = ""

--------------------------------------------------------------------------
(* Specification of discovery: one directory of the application is inspected *)

InitPkg ==
    /\ ErrIdle
    /\ ActIdle
    /\ AppIdle
    /\ ReqIdle
    /\ TreeIdle
    /\ MetaIdle
    /\ config \in {AppConfig(n) : n \in AppDirNames}
    /\ package_dir \in AppDirs(config)
    /\ stems \in SUBSET FileStems
    /\ package = NoPackage
    /\ stack = <<>>
    /\ packages = {}
    /\ pc = "start"

\* PackageInfo.from_marker_file applied to a file of the directory
FromMarkerFile ==
    /\ pc = "start"
    /\ package' = from_marker_file(package_dir, config)
    /\ pc' = "described"
    /\ UNCHANGED <<config, errVars, actVars, package_dir, stems, stack, packages, treeVars, metaVars, appVars, reqVars>>

\* _discover_app_packages(config)
DiscoverAppPackages ==
    /\ pc \in {"start", "described"}
    /\ packages' = _discover_app_packages(config, FilesIn(package_dir, stems))
    /\ pc' = "discovered"
    /\ UNCHANGED <<config, errVars, actVars, package_dir, stems, package, stack, treeVars, metaVars, appVars, reqVars>>

NextPkg == FromMarkerFile \/ DiscoverAppPackages

SpecPkg == InitPkg /\ [][NextPkg]_vars

--------------------------------------------------------------------------
(* Specification of the tree build: _build_app_tree over a set of packages *)

\* most packages handed to _build_app_tree
MaxPackages == 3

seg_a == <<"a">>
seg_ab == <<"a", "b">>
seg_dyn == <<"_", "a", "_">>
seg_braces == <<"{", "a", "}">>

\* package directories below the application directory: the root, nested
\* directories with and without their intermediate directories, a name that
\* is a textual prefix of another (a, ab), and two names with one URL
TreeDirs ==
    { <<>>, <<seg_a>>, <<seg_ab>>, <<seg_a, seg_a>>, <<seg_a, seg_dyn>>,
      <<seg_a, seg_braces>>, <<seg_dyn>>, <<seg_braces>>, <<seg_a, seg_ab, seg_a>> }

\* the sequences without repetition of at most n elements of S
RECURSIVE Orders(_, _)
Orders(S, n) ==
    IF n = 0 THEN {<<>>}
    ELSE LET shorter == Orders(S, n - 1) IN
         shorter \cup {Append(q, x) : q \in {r \in shorter : Len(r) = n - 1}, x \in S}

NoRepeat(q) == \A i, j \in 1..Len(q) : i # j => q[i] # q[j]

Range(q) == {q[i] : i \in 1..Len(q)}

InitTree ==
    /\ ErrIdle
    /\ ActIdle
    /\ AppIdle
    /\ ReqIdle
    /\ PkgIdle
    /\ MetaIdle
    /\ config = AppConfig(<<"a", "p", "p">>)
    /\ order \in {q \in Orders({from_marker_file(config.app_dir \o d, config) : d \in TreeDirs},
                               MaxPackages) : NoRepeat(q)}
    /\ packages = Range(order)
    /\ n_added = 0
    /\ tree = RootTree
    /\ error = ""
    /\ pc = "adding"

\* one iteration of the loop of _build_app_tree: root.add(p) returns
AddPackage ==
    /\ pc = "adding"
    /\ n_added < Len(order)
    /\ LET r == Add(tree, RootId, order[n_added + 1]) IN
        /\ r.error = ""
        /\ tree' = r.tree
        /\ n_added' = n_added + 1
        /\ UNCHANGED <<error, pc>>
    /\ UNCHANGED <<config, errVars, actVars, pkgVars, packages, order, metaVars, appVars, reqVars>>

\* one iteration of the loop of _build_app_tree: root.add(p) raises, which
\* ends the build; nodes created on the way down stay in the tree
AddRaises ==
    /\ pc = "adding"
    /\ n_added < Len(order)
    /\ LET r == Add(tree, RootId, order[n_added + 1]) IN
        /\ r.error # ""
        /\ tree' = r.tree
        /\ error' = r.error
        /\ pc' = "failed"
        /\ UNCHANGED n_added
    /\ UNCHANGED <<config, errVars, actVars, pkgVars, packages, order, metaVars, appVars, reqVars>>

\* _build_app_tree returns the root
ReturnTree ==
    /\ pc = "adding"
    /\ n_added = Len(order)
    /\ pc' = "built"
    /\ UNCHANGED <<config, errVars, actVars, pkgVars, packages, treeVars, metaVars, appVars, reqVars>>

NextTree == AddPackage \/ AddRaises \/ ReturnTree

SpecTree == InitTree /\ [][NextTree]_vars

--------------------------------------------------------------------------
(* Specification of metadata resolution: get_metadata_dependency on one
   owner, then the dependency is resolved for a number of requests *)

\* most requests for which the dependency is resolved
MaxRequests == 4

\* the shapes of a metadata attribute
MetadataAttrs ==
    { MetadataAttr("absent", {}), MetadataAttr("None", {}),
      MetadataAttr("mapping", {}), MetadataAttr("mapping", {<<"title", "X">>}),
      MetadataAttr("callable", {}),
      MetadataAttr("callable_mapping", {<<"title", "X">>}),
      MetadataAttr("other", {}) }

InitMeta ==
    /\ ErrIdle
    /\ ActIdle
    /\ AppIdle
    /\ ReqIdle
    /\ PkgIdle
    /\ TreeIdle
    /\ config = AppConfig(<<"a", "p", "p">>)
    /\ packages = {}
    /\ owner \in MetadataAttrs
    /\ metadata_dep = NoDep
    /\ resolved = <<>>
    /\ pc = "start"

\* get_metadata_dependency(obj) returns a dependency
GetMetadataDependency ==
    /\ pc = "start"
    /\ LET r == get_metadata_dependency(owner) IN
        /\ r.error = ""
        /\ metadata_dep' = r.dep
        /\ pc' = "bound"
    /\ UNCHANGED <<config, errVars, actVars, pkgVars, packages, treeVars, owner, resolved, appVars, reqVars>>

\* get_metadata_dependency(obj) raises
GetMetadataDependencyRaises ==
    /\ pc = "start"
    /\ LET r == get_metadata_dependency(owner) IN
        /\ r.error # ""
        /\ error' = r.error
        /\ pc' = "failed"
    /\ UNCHANGED <<config, errVars, actVars, pkgVars, packages, order, n_added, tree, metaVars, appVars, reqVars>>

\* the host framework resolves the dependency for one more request
ResolveDependency ==
    /\ pc = "bound"
    /\ Len(resolved) < MaxRequests
    /\ \E produced \in MetadataResults :
          resolved' = Append(resolved, CallMetadataDep(metadata_dep, produced))
    /\ UNCHANGED <<config, errVars, actVars, pkgVars, packages, treeVars, owner, metadata_dep, pc, appVars, reqVars>>

NextMeta == GetMetadataDependency \/ GetMetadataDependencyRaises \/ ResolveDependency

SpecMeta == InitMeta /\ [][NextMeta]_vars

--------------------------------------------------------------------------
(* Specification of an application: App() builds the routes of one
   application of a family, then one request is served step by step *)

app_name == <<"a", "p", "p">>

\* the package directories of the family: the application directory, a
\* directory below it, a path parameter directory below that one, and a
\* directory beside the first one
dir_root == <<app_name>>
dir_a == <<app_name, seg_a>>
dir_dyn == <<app_name, seg_a, seg_dyn>>
dir_ab == <<app_name, seg_ab>>

\* the import name of a module of a package directory
ModuleName(dir, module) == Replace(PathStr(dir), "/", ".") \o <<".">> \o module

page_py == <<"p", "a", "g", "e">>

\* the layout modules a directory may hold: none, a sync or an async layout
LayoutChoices(id) == {NoLayout, Layout(id, FALSE), Layout(id, TRUE)}

\* actions of a page module: registered plainly, with the layouts, and with
\* metadata only
PageActions(module) ==
    { ActionDescriptor(<<"/", "p">>, Function(module, <<"g", "e", "t">>, "plain_action"),
                       "GET", FALSE, MetadataAttr("None", {})),
      ActionDescriptor(<<"/", "l">>, Function(module, <<"w", "l">>, "layout_action"),
                       "GET", TRUE, MetadataAttr("None", {})),
      ActionDescriptor(<<"/", "m">>, Function(module, <<"p", "o", "s", "t">>, "metadata_action"),
                       "POST", FALSE, MetadataAttr("mapping", {<<"title", "A">>})) }

\* actions of an actions module: with layouts and a metadata resolver, and plainly
ModuleActions(module) ==
    { ActionDescriptor(<<"/", "l", "m">>, Function(module, <<"p", "u", "t">>, "full_action"),
                       "PUT", TRUE, MetadataAttr("callable", {})),
      ActionDescriptor(<<"/", "p">>, Function(module, <<"d", "e", "l">>, "module_action"),
                       "DELETE", FALSE, MetadataAttr("None", {})) }

\* the page modules a directory may hold: a page alone; a page with a submit
\* handler, static metadata and actions; a page with a submit handler and a
\* metadata resolver
PageChoices(dir) ==
    { PageModule(ModuleName(dir, page_py), FALSE, NoMetadataAttr, {}),
      PageModule(ModuleName(dir, page_py), TRUE,
                 MetadataAttr("mapping", {<<"title", "X">>}),
                 PageActions(ModuleName(dir, page_py))),
      PageModule(ModuleName(dir, page_py), TRUE, MetadataAttr("callable", {}), {}) }

actions_py == <<"a", "c", "t", "i", "o", "n", "s">>

\* the applications of the family: any layouts on the chain of directories,
\* one page module in one of them, and a layout with an actions module beside
Applications ==
    { (dir_root :> Package(l0, IF pdir = dir_root THEN pm ELSE NoModule, NoModule))
      @@ (dir_a :> Package(l1, IF pdir = dir_a THEN pm ELSE NoModule, NoModule))
      @@ (dir_dyn :> Package(l2, IF pdir = dir_dyn THEN pm ELSE NoModule, NoModule))
      @@ (dir_ab :> Package(Layout("ab", FALSE), NoModule,
                            PageModule(ModuleName(dir_ab, actions_py), FALSE,
                                       NoMetadataAttr,
                                       ModuleActions(ModuleName(dir_ab, actions_py)))))
      : l0 \in LayoutChoices("root"), l1 \in LayoutChoices("a"),
        l2 \in LayoutChoices("dyn"),
        pdir \in {dir_root, dir_a, dir_dyn},
        pm \in UNION {PageChoices(d) : d \in {dir_root, dir_a, dir_dyn}} }

Init ==
    /\ ErrIdle
    /\ ActIdle
    /\ PkgIdle
    /\ TreeIdle
    /\ MetaIdle
    /\ ReqIdle
    /\ config = AppConfig(app_name)
    /\ packages = {}
    /\ modules \in {m \in Applications :
                       \A d \in DOMAIN m : m[d].page # NoModule =>
                           m[d].page.name = ModuleName(d, page_py)}
    /\ app_routes = <<>>
    /\ pc = "init"

\* the orders in which the set of packages may yield its elements
IterationOrders(found) ==
    {q \in Orders(found, Cardinality(found)) : Len(q) = Cardinality(found) /\ NoRepeat(q)}

\* the body of App() after discovery, for the packages in the order ord: the
\* tree, the error handlers, the routes, the warnings, the exception raised
Construct(mods, ord) ==
    LET built == _build_app_tree(ord, [tree |-> RootTree, error |-> ""])
        handlers == IF built.error # ""
                    THEN [keys |-> {}, error |-> built.error, warnings |-> <<>>]
                    ELSE register_error_handlers(built.tree, mods)
        api == IF handlers.error # "" THEN Result(<<>>, handlers.error, <<>>)
               ELSE _build_api(built.tree, mods, RootId, empty_layout_dependency)
    IN [tree |-> built.tree, routes |-> api.routes, error |-> api.error,
        handlers |-> handlers.keys, log |-> handlers.warnings \o api.warnings]

\* App(): discovery, the tree build over the set of packages in the order
\* the set yields them, the error handlers of the root package, and
\* _build_api on the root node
App ==
    /\ pc = "init"
    /\ LET found == _discover_app_packages(config, FilesOf(modules)) IN
        \E ord \in IterationOrders(found) :
          LET app == Construct(modules, ord)
          IN /\ packages' = found
             /\ tree' = app.tree
             /\ error' = app.error
             /\ app_routes' = app.routes
             /\ exception_handlers' = app.handlers
             /\ log' = app.log
             /\ pc' = IF app.error = "" THEN "serving" ELSE "failed"
    /\ UNCHANGED <<config, actVars, error_response, propagated, pkgVars, order, n_added, metaVars,
                   modules, reqVars>>

\* the host framework matches a request to a route
ReceiveRequest ==
    /\ pc = "serving"
    /\ \E i \in 1..Len(app_routes) : route' = app_routes[i]
    /\ pc' = "page"
    /\ UNCHANGED <<config, errVars, actVars, pkgVars, packages, treeVars, metaVars, appVars, page_result,
                   metadata_result, layout_factory, pending, cur_props, calls, handed,
                   rendered>>

\* a path operation that goes to its body without the other dependencies
\* when the page is a Response or carries the marker
ResolvePage_SkipsDependencies ==
    /\ pc = "page"
    /\ route.kind = "page"
    /\ \E outcome \in PageOutcomes : page_result' = PageValue(route.page_dep, outcome)
    /\ pc' = IF PathOperationBranch(page_result') = "layout" THEN "metadata" ELSE "body"
    /\ UNCHANGED <<config, errVars, actVars, pkgVars, packages, treeVars, metaVars, appVars, route,
                   metadata_result, layout_factory, pending, cur_props, calls, handed,
                   rendered>>

\* a path operation whose layout parameter follows the page parameter
ResolvePage_ThenLayout ==
    /\ pc = "page"
    /\ route.kind = "page"
    /\ \E outcome \in PageOutcomes : page_result' = PageValue(route.page_dep, outcome)
    /\ pc' = "layout"
    /\ UNCHANGED <<config, errVars, actVars, pkgVars, packages, treeVars, metaVars, appVars, route,
                   metadata_result, layout_factory, pending, cur_props, calls, handed,
                   rendered>>

\* Depends(page_dep) of a page-like route is resolved
ResolvePage ==
    /\ pc = "page"
    /\ route.kind = "page"
    /\ \E outcome \in PageOutcomes : page_result' = PageValue(route.page_dep, outcome)
    /\ pc' = "metadata"
    /\ UNCHANGED <<config, errVars, actVars, pkgVars, packages, treeVars, metaVars, appVars, route,
                   metadata_result, layout_factory, pending, cur_props, calls, handed,
                   rendered>>

\* the action of a plainly registered route returns to htmy.page()
CallPlainAction ==
    /\ pc = "page"
    /\ route.kind = "plain"
    /\ \E outcome \in PageOutcomes :
          /\ page_result' = PageValue(route.page_dep, outcome)
          /\ handed' = Handed(IF outcome = "Response" THEN "Response" ELSE "component",
                               page_result', MetaNone)
    /\ pc' = "returned"
    /\ UNCHANGED <<config, errVars, actVars, pkgVars, packages, treeVars, metaVars, appVars, route,
                   metadata_result, layout_factory, pending, cur_props, calls, rendered>>

\* Depends(metadata_dep) is resolved
ResolveMetadata ==
    /\ pc = "metadata"
    /\ \E produced \in IF route.metadata_dep.kind = "object" THEN MetadataResults
                         ELSE {MetaNone} :
          metadata_result' = CallMetadataDep(route.metadata_dep, produced)
    /\ pc' = "layout"
    /\ UNCHANGED <<config, errVars, actVars, pkgVars, packages, treeVars, metaVars, appVars, route,
                   page_result, layout_factory, pending, cur_props, calls, handed,
                   rendered>>

\* Depends(layout_dep) is resolved to the layout factory
ResolveLayout ==
    /\ pc = "layout"
    /\ layout_factory' = route.layout_dep
    /\ pc' = "body"
    /\ UNCHANGED <<config, errVars, actVars, pkgVars, packages, treeVars, metaVars, appVars, route,
                   page_result, metadata_result, pending, cur_props, calls, handed,
                   rendered>>

\* path_operation: the page is a Response
PathOperationResponse ==
    /\ pc = "body"
    /\ PathOperationBranch(page_result) = "Response"
    /\ handed' = Handed("Response", page_result, MetaNone)
    /\ pc' = "returned"
    /\ UNCHANGED <<config, errVars, actVars, pkgVars, packages, treeVars, metaVars, appVars, route,
                   page_result, metadata_result, layout_factory, pending, cur_props,
                   calls, rendered>>

\* path_operation: the page carries the marker
PathOperationWithoutLayout ==
    /\ pc = "body"
    /\ PathOperationBranch(page_result) = "without_layout"
    /\ handed' = ReturnPair(page_result.kids[1], metadata_result)
    /\ pc' = "returned"
    /\ UNCHANGED <<config, errVars, actVars, pkgVars, packages, treeVars, metaVars, appVars, route,
                   page_result, metadata_result, layout_factory, pending, cur_props,
                   calls, rendered>>

\* path_operation: layout(as_component_type(page)) is called
PathOperationLayout ==
    /\ pc = "body"
    /\ PathOperationBranch(page_result) = "layout"
    /\ cur_props' = as_component_type(page_result)
    /\ pending' = layout_factory
    /\ pc' = "composing"
    /\ UNCHANGED <<config, errVars, actVars, pkgVars, packages, treeVars, metaVars, appVars, route,
                   page_result, metadata_result, layout_factory, calls, handed, rendered>>

\* a combined layout factory calls its inner layout; on the marker the
\* result returns through the factories entered so far to path_operation
InvokeLayout ==
    /\ pc = "composing"
    /\ pending # <<>>
    /\ \E outcome \in LayoutOutcomes :
          LET inner == pending[Len(pending)]
              r == InnerStep(inner, cur_props, outcome)
              entered == Len(layout_factory) - Len(pending) + 1
          IN /\ calls' = Append(calls, [layout |-> inner.id, props |-> cur_props,
                                         outcome |-> outcome])
             /\ IF r.stop
                THEN /\ handed' = ReturnPair(AwaitIfAwaitable(ReturnThrough(entered - 1,
                                                 Awaitable(r.value))), metadata_result)
                     /\ pc' = "returned"
                     /\ UNCHANGED <<pending, cur_props>>
                ELSE /\ cur_props' = r.value
                     /\ pending' = SubSeq(pending, 1, Len(pending) - 1)
                     /\ UNCHANGED <<handed, pc>>
    /\ UNCHANGED <<config, errVars, actVars, pkgVars, packages, treeVars, metaVars, appVars, route,
                   page_result, metadata_result, layout_factory, rendered>>

\* empty_layout returns the props; the result returns through every combined
\* factory to path_operation, which awaits it if it is awaitable
ReturnLayout ==
    /\ pc = "composing"
    /\ pending = <<>>
    /\ handed' = ReturnPair(
                     IF Len(layout_factory) = 0 THEN AwaitIfAwaitable(cur_props)
                     ELSE AwaitIfAwaitable(ReturnThrough(Len(layout_factory) - 1,
                                                         Awaitable(cur_props))),
                     metadata_result)
    /\ pc' = "returned"
    /\ UNCHANGED <<config, errVars, actVars, pkgVars, packages, treeVars, metaVars, appVars, route,
                   page_result, metadata_result, layout_factory, pending, cur_props,
                   calls, rendered>>

\* a Response is sent as it is
SendResponse ==
    /\ pc = "returned"
    /\ handed.kind = "Response"
    /\ pc' = "sent"
    /\ UNCHANGED <<config, errVars, actVars, pkgVars, packages, treeVars, metaVars, appVars, reqVars>>

\* htmy.page(components_with_metadata) renders the tuple of a page-like route
RenderPage ==
    /\ pc = "returned"
    /\ handed.kind = "tuple"
    /\ rendered' = components_with_metadata(handed)
    /\ pc' = "sent"
    /\ UNCHANGED <<config, errVars, actVars, pkgVars, packages, treeVars, metaVars, appVars, route,
                   page_result, metadata_result, layout_factory, pending, cur_props,
                   calls, handed>>

\* htmy.page() renders the component of a plainly registered action
RenderAction ==
    /\ pc = "returned"
    /\ handed.kind = "component"
    /\ rendered' = Rendered(MetaNone, "", RenderError(handed.content))
    /\ pc' = "sent"
    /\ UNCHANGED <<config, errVars, actVars, pkgVars, packages, treeVars, metaVars, appVars, route,
                   page_result, metadata_result, layout_factory, pending, cur_props,
                   calls, handed>>

Next ==
    \/ App
    \/ ReceiveRequest
    \/ ResolvePage
    \/ CallPlainAction
    \/ ResolveMetadata
    \/ ResolveLayout
    \/ PathOperationResponse
    \/ PathOperationWithoutLayout
    \/ PathOperationLayout
    \/ InvokeLayout
    \/ ReturnLayout
    \/ SendResponse
    \/ RenderPage
    \/ RenderAction

Spec == Init /\ [][Next]_vars

--------------------------------------------------------------------------
(* Specification of action registration: functions of the page module and
   of the actions module of the application directory are decorated, the
   application is built from the two modules, and one request is served *)

MaxRegistrations == 3

\* the modules whose functions are decorated
page_module_name == ModuleName(dir_root, page_py)
actions_module_name == ModuleName(dir_root, actions_py)

\* the decorated functions: two of the page module, the second named x, and
\* one of the actions module
func_f == Function(page_module_name, <<"f">>, "f")
func_x == Function(page_module_name, <<"x">>, "x")
func_a == Function(actions_module_name, <<"f">>, "a")

path_x == <<"/", "x">>
path_y == <<"/", "y">>
path_f == <<"/", "f">>

\* one application of a decorator action.get(...), action.post(...)
Decoration(func, path, method, use_layout, metadata, tags) ==
    [func |-> func, path |-> path, method |-> method, use_layout |-> use_layout,
     metadata |-> metadata, tags |-> tags]

\* the decorator applications of the runs
Decorations ==
    { Decoration(func_f, PyNone, "GET", FALSE, MetadataAttr("None", {}), PyNone),
      Decoration(func_f, Some(path_x), "GET", TRUE, MetadataAttr("None", {}), PyNone),
      Decoration(func_f, Some(path_x), "POST", FALSE,
                 MetadataAttr("mapping", {<<"title", "A">>}), Some(<<"Admin">>)),
      Decoration(func_f, Some(path_y), "POST", TRUE, MetadataAttr("None", {}), Some(<<>>)),
      Decoration(func_x, PyNone, "POST", FALSE, MetadataAttr("None", {}), PyNone),
      Decoration(func_x, Some(path_y), "GET", FALSE, MetadataAttr("None", {}),
                 Some(<<"Admin">>)),
      Decoration(func_a, PyNone, "POST", FALSE, MetadataAttr("None", {}), PyNone),
      Decoration(func_a, Some(path_y), "GET", TRUE, MetadataAttr("None", {}), PyNone) }

HTTPMethods == {"GET", "POST"}

RequestPaths == {path_f, path_x, path_y}

\* the route that serves a request: the first one registered for its path
\* and method
RECURSIVE Match(_, _)
Match(routes, req) ==
    IF routes = <<>> THEN NoRoute
    ELSE IF Head(routes).path = req.path /\ Head(routes).method = req.method
         THEN Head(routes)
         ELSE Match(Tail(routes), req)

InitAct ==
    /\ ErrIdle
    /\ PkgIdle
    /\ TreeIdle
    /\ MetaIdle
    /\ ReqIdle
    /\ AppIdle
    /\ config = AppConfig(app_name)
    /\ packages = {}
    /\ action_descriptors = (page_module_name :> {}) @@ (actions_module_name :> {})
    /\ registrations = <<>>
    /\ request = <<>>
    /\ pc = "importing"

\* a decorator of the action class is applied to a function while its module
\* is imported
RegisterAction ==
    /\ pc = "importing"
    /\ Len(registrations) < MaxRegistrations
    /\ \E dec \in Decorations :
          /\ action_descriptors' =
                [action_descriptors EXCEPT ![dec.func.module] =
                    _register_action(@, dec.func, dec.use_layout, dec.metadata,
                                     dec.path, dec.tags, <<dec.method>>)]
          /\ registrations' = Append(registrations, dec)
    /\ UNCHANGED <<config, errVars, pkgVars, packages, treeVars, metaVars, appVars, reqVars,
                   request, pc>>

\* the modules are as the decorators left them (a page module, and an
\* actions module if it has actions), below a root layout
ModulesLoaded ==
    /\ pc = "importing"
    /\ modules' =
          (dir_root :>
             Package(Layout("root", FALSE),
                     PageModule(page_module_name, FALSE, NoMetadataAttr,
                                action_descriptors[page_module_name]),
                     IF action_descriptors[actions_module_name] = {} THEN NoModule
                     ELSE PageModule(actions_module_name, FALSE, NoMetadataAttr,
                                     action_descriptors[actions_module_name])))
    /\ pc' = "init"
    /\ UNCHANGED <<config, errVars, pkgVars, packages, treeVars, metaVars, app_routes, reqVars,
                   actVars>>

\* a request for a path and method is matched to a route of the application
RequestAction ==
    /\ pc = "serving"
    /\ \E path \in RequestPaths, method \in HTTPMethods :
          /\ request' = [path |-> path, method |-> method]
          /\ route' = Match(app_routes, request')
          /\ pc' = IF route' = NoRoute THEN "not_found" ELSE "page"
    /\ UNCHANGED <<config, errVars, pkgVars, packages, treeVars, metaVars, appVars, page_result,
                   metadata_result, layout_factory, pending, cur_props, calls, handed,
                   rendered, action_descriptors, registrations>>

NextAct ==
    \/ RegisterAction
    \/ ModulesLoaded
    \/ App
    \/ RequestAction
    \/ ResolvePage
    \/ CallPlainAction

SpecAct == InitAct /\ [][NextAct]_vars

--------------------------------------------------------------------------
(* Specification of the build of an application with faults: App() on an
   application whose modules may fail to import, may be invalid, and whose
   directories may collide, then the registered error handlers at work *)

\* a second path parameter directory beside dir_dyn, with the same URL
dir_braces == <<app_name, seg_a, seg_braces>>

simple_page(dir) == PageModule(ModuleName(dir, page_py), FALSE, NoMetadataAttr, {})

\* the api attributes of an api module: none, a router, factories without
\* and with the htmy parameter, a factory with two parameters, factories
\* that return something else, and an object that is neither
ApiChoices ==
    { NoApi,
      ApiAttr("APIRouter", 0, "APIRouter"),
      ApiAttr("callable", 0, "APIRouter"),
      ApiAttr("callable", 1, "APIRouter"),
      ApiAttr("callable", 2, "APIRouter"),
      ApiAttr("callable", 0, "other"),
      ApiAttr("callable", 1, "other"),
      ApiAttr("other", 0, "") }

\* the page modules of the directory with faults: a page with a submit
\* handler, a page with invalid metadata, and a page with an action
\* registered with invalid metadata
FaultyPageChoices(dir) ==
    { PageModule(ModuleName(dir, page_py), TRUE, NoMetadataAttr, {}),
      PageModule(ModuleName(dir, page_py), FALSE, MetadataAttr("other", {}), {}),
      PageModule(ModuleName(dir, page_py), FALSE, NoMetadataAttr,
                 {ActionDescriptor(<<"/", "m">>,
                                   Function(ModuleName(dir, page_py), <<"g", "e", "t">>,
                                            "metadata_action"),
                                   "GET", FALSE, MetadataAttr("other", {}))}) }

\* the actions modules of that directory: none, one with an action, and one
\* without any
FaultyActionsChoices(dir) ==
    { NoModule,
      PageModule(ModuleName(dir, actions_py), FALSE, NoMetadataAttr,
                 ModuleActions(ModuleName(dir, actions_py))),
      PageModule(ModuleName(dir, actions_py), FALSE, NoMetadataAttr, {}) }

\* the root packages: layout, handlers attribute of the error module, the
\* modules whose import raises, and the modules whose function is not callable
RootChoices ==
    { PackageFiles(c[1], simple_page(dir_root), NoModule, NoApi, c[2], c[3], c[4]) :
        c \in { <<NoLayout, NoHandlers, {}, {}>>,
                <<Layout("root", FALSE), HandlersAttr("mapping", {"404"}), {}, {}>>,
                <<Layout("root", FALSE), HandlersAttr("callable", {"404", "Exception"}),
                  {}, {}>>,
                <<Layout("root", FALSE), HandlersAttr("other", {}), {}, {}>>,
                <<LayoutWithoutProps("root"), NoHandlers, {}, {}>>,
                <<Layout("root", FALSE), NoHandlers, {}, {"layout"}>>,
                <<Layout("root", FALSE), HandlersAttr("mapping", {"404"}), {"error"}, {}>>,
                <<Layout("root", FALSE), HandlersAttr("mapping", {"404"}), {"layout"}, {}>>,
                <<LayoutWithoutProps("root"), HandlersAttr("other", {}),
                  {"layout", "error"}, {}>> } }

\* the directory with faults: a page module that may not define a callable
\* page, an actions module, an api module, and the modules whose import raises
FaultyChoices ==
    { PackageFiles(Layout("a", FALSE), pm[1], am, api, NoHandlers, r1, pm[2]) :
        pm \in (FaultyPageChoices(dir_a) \X {{}}) \cup {<<simple_page(dir_a), {"page"}>>},
        am \in FaultyActionsChoices(dir_a),
        api \in ApiChoices,
        r1 \in {{}, {"page"}, {"api"}, {"layout", "actions"}} }

\* the applications: a root with a layout and an error module above the
\* directory with faults, and such a root above two path parameter
\* directories with the same URL
FaultyApplications ==
    { (dir_root :> root) @@ (dir_a :> faulty) @@ (dir_dyn :> NoFiles)
      @@ (dir_braces :> NoFiles)
      : root \in RootChoices, faulty \in FaultyChoices }
    \cup
    { (dir_root :> root) @@ (dir_a :> NoFiles)
      @@ (dir_dyn :> Package(NoLayout, simple_page(dir_dyn), NoModule))
      @@ (dir_braces :> Package(NoLayout, simple_page(dir_braces), NoModule))
      : root \in RootChoices }

\* what an error handler may return: a response, a component, and a
\* component whose rendering raises
HandlerResults ==
    { Response("error_response"),
      Component("error_page"),
      without_layout(Component("error_page")) }

InitBuild ==
    /\ ErrIdle
    /\ ActIdle
    /\ PkgIdle
    /\ TreeIdle
    /\ MetaIdle
    /\ ReqIdle
    /\ config = AppConfig(app_name)
    /\ packages = {}
    /\ modules \in FaultyApplications
    /\ app_routes = <<>>
    /\ pc = "init"

\* an exception with a registered handler is raised while a request is
\* served: the wrapped handler runs
HandleError ==
    /\ pc = "serving"
    /\ \E key \in exception_handlers, result \in HandlerResults :
          error_response' = <<[key |-> key, result |-> result,
                               outcome |-> wrap_error_handler(result)]>>
    /\ UNCHANGED <<config, pkgVars, packages, treeVars, metaVars, appVars, reqVars,
                   actVars, log, exception_handlers, propagated, pc>>

NextBuild ==
    \/ App
    \/ HandleError

SpecBuild == InitBuild /\ [][NextBuild]_vars

--------------------------------------------------------------------------
(* Specification of a request whose dependencies may raise: the requests of
   Spec, and those in which a dependency of the route raises while the host
   framework resolves the dependencies of the handler *)

\* what a dependency may raise: an HTTP error of the framework, or any other
\* exception
Exceptions == {"HTTPException(499)", "RuntimeError"}

\* a handler that answers a raising dependency itself
Propagate_Swallowed(by, exc) == [by |-> by, raised |-> exc, error |-> ""]

\* an exception raised while the dependencies of path_operation are
\* resolved: neither path_operation nor the dependencies built for it catch
\* it, so the host framework gets the exception that was raised
Propagate(by, exc) == [by |-> by, raised |-> exc, error |-> exc]

\* a dependency in the dependencies argument of the route raises; these are
\* resolved before the parameters of the handler
RouteDependencyRaises ==
    /\ pc = "page"
    /\ \E exc \in Exceptions : propagated' = Propagate("route", exc)
    /\ pc' = "raised"
    /\ UNCHANGED <<config, pkgVars, packages, treeVars, metaVars, appVars, reqVars,
                   actVars, log, exception_handlers, error_response>>

\* the page, submit handler or action, or a dependency of it, raises
PageRaises ==
    /\ pc = "page"
    /\ \E exc \in Exceptions : propagated' = Propagate("page", exc)
    /\ pc' = "raised"
    /\ UNCHANGED <<config, pkgVars, packages, treeVars, metaVars, appVars, reqVars,
                   actVars, log, exception_handlers, error_response>>

\* the metadata resolver, or a dependency of it, raises
MetadataRaises ==
    /\ pc = "metadata"
    /\ route.metadata_dep.kind = "object"
    /\ \E exc \in Exceptions : propagated' = Propagate("metadata", exc)
    /\ pc' = "raised"
    /\ UNCHANGED <<config, pkgVars, packages, treeVars, metaVars, appVars, reqVars,
                   actVars, log, exception_handlers, error_response>>

\* a dependency of a layout of the chain raises while the layout factory
\* dependency is resolved
LayoutDependencyRaises ==
    /\ pc = "layout"
    /\ route.layout_dep # empty_layout_dependency
    /\ \E exc \in Exceptions : propagated' = Propagate("layout", exc)
    /\ pc' = "raised"
    /\ UNCHANGED <<config, pkgVars, packages, treeVars, metaVars, appVars, reqVars,
                   actVars, log, exception_handlers, error_response>>

NextDeps ==
    \/ App
    \/ ReceiveRequest
    \/ RouteDependencyRaises
    \/ ResolvePage
    \/ PageRaises
    \/ CallPlainAction
    \/ ResolveMetadata
    \/ MetadataRaises
    \/ ResolveLayout
    \/ LayoutDependencyRaises
    \/ PathOperationResponse
    \/ PathOperationWithoutLayout
    \/ PathOperationLayout
    \/ InvokeLayout
    \/ ReturnLayout
    \/ SendResponse
    \/ RenderPage
    \/ RenderAction

SpecDeps == Init /\ [][NextDeps]_vars

--------------------------------------------------------------------------
(* Specification of discovery over an application directory: the set of
   packages _discover_app_packages makes of the directories that hold a page *)

seg_b == <<"b">>
seg_a_dot_b == <<"a", ".", "b">>

\* directories below the application directory: the directory itself, a
\* directory and one nested in it, a directory with a dot in its name, and
\* the two spellings of a path parameter
DiscoveryDirs ==
    { <<>>, <<seg_a>>, <<seg_a, seg_b>>, <<seg_a_dot_b>>, <<seg_dyn>>, <<seg_braces>> }

InitDiscovery ==
    /\ ErrIdle
    /\ ActIdle
    /\ PkgIdle
    /\ TreeIdle
    /\ MetaIdle
    /\ ReqIdle
    /\ config \in {AppConfig(n) : n \in AppDirNames}
    /\ packages = {}
    /\ modules \in {[d \in {config.app_dir \o sub : sub \in D} |->
                        Package(NoLayout, simple_page(d), NoModule)] :
                     D \in SUBSET DiscoveryDirs \ {{}}}
    /\ app_routes = <<>>
    /\ pc = "start"

\* _discover_app_packages(config) on the files of the application
DiscoverApplication ==
    /\ pc = "start"
    /\ packages' = _discover_app_packages(config, FilesOf(modules))
    /\ pc' = "discovered"
    /\ UNCHANGED <<config, errVars, actVars, pkgVars, treeVars, metaVars, appVars, reqVars>>

NextDiscovery == DiscoverApplication

SpecDiscovery == InitDiscovery /\ [][NextDiscovery]_vars

--------------------------------------------------------------------------
(* Specification of the configuration: AppConfig.default on a call stack *)

\* most frames between AppConfig.default and the outermost caller
MaxFrames == 3

\* packages of caller frames: the library and a package of it, an application
\* package, a module outside every package, and a foreign package whose name
\* begins like the library's
holm_modules == lib_root \o <<".", "m", "o", "d", "u", "l", "e", "s">>
holmes == lib_root \o <<"e", "s">>
CallerFrames ==
    { Frame(lib_root), Frame(holm_modules), Frame(app_name), Frame(<<>>),
      Frame(holmes), FrameWithoutPackage }

\* the frames of the callers of AppConfig.default, innermost first
RECURSIVE CallerStacks(_)
CallerStacks(n) ==
    IF n = 0 THEN {<<>>}
    ELSE LET shorter == CallerStacks(n - 1) IN
         shorter \cup {Append(f, c) : f \in {g \in shorter : Len(g) = n - 1},
                                      c \in CallerFrames}

\* the configuration before AppConfig.default returned
NoConfig == [app_dir_name |-> <<>>, app_url_prefix_length |-> -1, app_dir |-> <<>>]

\* inspect.stack() inside _find_app_package_name: its own frame, the frame of
\* AppConfig.default, then the callers
InitConfig ==
    /\ ErrIdle
    /\ ActIdle
    /\ AppIdle
    /\ ReqIdle
    /\ TreeIdle
    /\ MetaIdle
    /\ package_dir = <<>>
    /\ stems = {}
    /\ package = NoPackage
    /\ packages = {}
    /\ config = NoConfig
    /\ stack \in {<<Frame(lib_root), Frame(lib_root)>> \o callers :
                     callers \in CallerStacks(MaxFrames) \ {<<>>}}
    /\ pc = "start"

\* AppConfig.default() returns
Default ==
    /\ pc = "start"
    /\ _find_app_package_name(stack).found
    /\ config' = AppConfig(_find_app_package_name(stack).name)
    /\ pc' = "configured"
    /\ UNCHANGED <<errVars, actVars, pkgVars, packages, treeVars, metaVars, appVars, reqVars>>

\* AppConfig.default() raises
DefaultRaises ==
    /\ pc = "start"
    /\ ~_find_app_package_name(stack).found
    /\ error' = "ValueError: Could not determine the application package."
    /\ pc' = "failed"
    /\ UNCHANGED <<config, errVars, actVars, pkgVars, packages, order, n_added, tree,
                   metaVars, appVars, reqVars>>

NextConfig == Default \/ DefaultRaises

SpecConfig == InitConfig /\ [][NextConfig]_vars

--------------------------------------------------------------------------
(* Specification of the registration of routes: App() on an application
   whose directories hold any of api.py, page.py and actions.py *)

\* the page modules of a directory: none, a page alone, and pages with a
\* submit handler, with actions, and with both
RoutePageChoices(dir) ==
    { NoModule, simple_page(dir),
      PageModule(ModuleName(dir, page_py), TRUE, NoMetadataAttr, {}),
      PageModule(ModuleName(dir, page_py), FALSE, NoMetadataAttr,
                 ModuleActions(ModuleName(dir, page_py))),
      PageModule(ModuleName(dir, page_py), TRUE, NoMetadataAttr,
                 ModuleActions(ModuleName(dir, page_py))) }

\* the actions modules of a directory: none, and one with actions
RouteActionsChoices(dir) ==
    { NoModule,
      PageModule(ModuleName(dir, actions_py), FALSE, NoMetadataAttr,
                 ModuleActions(ModuleName(dir, actions_py))) }

\* the contents of a directory; without any file its node has no package
NodeChoices(dir) ==
    { PackageFiles(NoLayout, pm, am, api, NoHandlers, {}, {}) :
        pm \in RoutePageChoices(dir),
        am \in RouteActionsChoices(dir),
        api \in {NoApi, ApiAttr("APIRouter", 0, "APIRouter")} }

\* the applications: the application directory above a directory above a
\* directory with a page
RouteApplications ==
    { (dir_root :> root) @@ (dir_a :> below)
      @@ (dir_dyn :> Package(NoLayout, simple_page(dir_dyn), NoModule))
      : root \in NodeChoices(dir_root), below \in NodeChoices(dir_a) }

InitRoutes ==
    /\ ErrIdle
    /\ ActIdle
    /\ PkgIdle
    /\ TreeIdle
    /\ MetaIdle
    /\ ReqIdle
    /\ config = AppConfig(app_name)
    /\ packages = {}
    /\ modules \in RouteApplications
    /\ app_routes = <<>>
    /\ pc = "init"

NextRoutes == App

SpecRoutes == InitRoutes /\ [][NextRoutes]_vars

--------------------------------------------------------------------------
(* Properties of request handling, under Spec *)

\* the handler of the request has returned
Returned == pc \in {"returned", "sent"}

\* the layouts of the directories from the application directory down to
\* dir that hold a layout module, the outermost first
RECURSIVE LayoutsAbove(_, _)
LayoutsAbove(dir, k) ==
    IF k > Len(dir) THEN <<>>
    ELSE (IF modules[SubSeq(dir, 1, k)].layout # NoLayout
          THEN <<modules[SubSeq(dir, 1, k)].layout>>
          ELSE <<>>)
         \o LayoutsAbove(dir, k + 1)

\* the content after the first k layout calls of the request: each layout
\* applied to the (normalized) result of the one before, the first one to
\* the page
RECURSIVE Composed(_)
Composed(k) ==
    IF k = 0 THEN as_component_type(page_result)
    ELSE as_component_type(
             LayoutBody(Layout(calls[k].layout, FALSE), Composed(k - 1), calls[k].outcome))

\* no function of the request returned the marker
NoMarkerReturned ==
    /\ ~IsWithoutLayout(page_result)
    /\ \A k \in 1..Len(calls) : calls[k].outcome # "without_layout"

\* C1: without a marker, the content of a page handed to rendering is
\* L_1(L_2(...L_n(page))) for exactly the layouts of the directories from
\* the page's directory (L_n) up to the root (L_1) that define one, each
\* called once, inside-out, on the result of the one before.
C1_LayoutsInsideOut ==
    (Returned /\ route.tags = <<"Page">> /\ ~IsResponse(page_result) /\ NoMarkerReturned) =>
        LET chain == LayoutsAbove(route.dir, 1)
            n == Len(chain)
        IN /\ handed.kind = "tuple"
           /\ Len(calls) = n
           /\ \A k \in 1..n :
                 /\ calls[k].layout = chain[n - k + 1].id
                 /\ calls[k].props = Composed(k - 1)
           /\ handed.content = Composed(n)

\* a page below a directory without package was wrapped by the layouts of
\* its own directory and of the root, the first of which returned a sequence
C1_Witness ==
    /\ pc = "sent"
    /\ route.tags = <<"Page">>
    /\ route.dir = dir_dyn
    /\ modules[dir_a] = NoFiles
    /\ Len(calls) = 2
    /\ calls[1].outcome = "sequence"
    /\ calls[2].layout = "root"
    /\ NoMarkerReturned
    /\ rendered.error = ""

\* C2: when the page (submit handler, action) or a layout returns the
\* marker, no layout outside that level is called and the content handed to
\* rendering is the component the marker wraps: the output of the levels up
\* to and including that one.
C2_MarkerStopsWrapping ==
    /\ \A k \in 1..Len(calls) : calls[k].outcome = "without_layout" => k = Len(calls)
    /\ IsWithoutLayout(page_result) => calls = <<>>
    /\ (Returned /\ route.kind = "page" /\ IsWithoutLayout(page_result)) =>
          handed = Handed("tuple", page_result.kids[1], metadata_result)
    /\ (Returned /\ calls # <<>> /\ calls[Len(calls)].outcome = "without_layout") =>
          /\ handed.kind = "tuple"
          /\ handed.content =
                Element(calls[Len(calls)].layout, Composed(Len(calls) - 1))
          /\ Len(calls) <= Len(layout_factory)

\* the middle layout of three returned the marker: the root layout was not called
C2_Witness ==
    /\ pc = "sent"
    /\ Len(layout_factory) = 3
    /\ Len(calls) = 2
    /\ calls[2].layout = "a"
    /\ calls[2].outcome = "without_layout"
    /\ layout_factory[2].is_async
    /\ rendered.error = ""

\* C3 as claimed: on every route the marker is unwrapped before rendering
C3_MarkerNeverRendered ==
    Returned => ~HasMarker(handed.content)

\* C3: on every page-like route (page, submit handler, action registered
\* with the layouts or with metadata) a marker returned by the function or by
\* a layout is unwrapped and never reaches rendering; the value of an action
\* registered with neither is handed to rendering as returned, the marker
\* included, and rendering it raises.
C3_MarkerUnwrappedOnPageLikeRoutes ==
    /\ (Returned /\ route.kind = "page") =>
          /\ ~HasMarker(handed.content)
          /\ IsWithoutLayout(page_result) => handed.content = page_result.kids[1]
          /\ pc = "sent" => rendered.error = ""
    /\ (Returned /\ route.kind = "plain" /\ ~IsResponse(page_result)) =>
          /\ handed.content = page_result
          /\ (pc = "sent" /\ IsWithoutLayout(page_result)) => rendered.error # ""

\* an action registered with metadata and without the layouts returned the
\* marker, and its component was rendered
C3_Witness ==
    /\ pc = "sent"
    /\ route.tags = <<"Action">>
    /\ route.kind = "page"
    /\ route.layout_dep = empty_layout_dependency
    /\ IsWithoutLayout(page_result)
    /\ handed.content = Component("metadata_action")
    /\ rendered.error = ""

\* C8: a Response of the page, submit handler or page-like action is the
\* result of the handler as it is: no layout is called and no metadata is
\* paired with it.
C8_ResponseBypassesLayout ==
    (Returned /\ route.kind = "page" /\ IsResponse(page_result)) =>
        /\ handed = Handed("Response", page_result, MetaNone)
        /\ calls = <<>>
        /\ rendered = NotRendered

\* an action with three layouts and a metadata resolver returned a Response
C8_Witness ==
    /\ pc = "sent"
    /\ route.tags = <<"Action">>
    /\ Len(route.layout_dep) = 2
    /\ route.metadata_dep.kind = "object"
    /\ ~metadata_result.is_none
    /\ handed.content = Response("full_action")

\* the title the metadata gives, "App" when it gives none
TitleOf(md) ==
    IF \E it \in md.items : it[1] = "title"
    THEN (CHOOSE it \in md.items : it[1] = "title")[2]
    ELSE "App"

\* C9: a page-like route whose page is no Response hands (content, M) to
\* rendering, M being the value of its metadata dependency in this request;
\* the layouts read this M, and an empty mapping when M is None, so that a
\* lookup with a default yields the default.
C9_MetadataHandedToRendering ==
    /\ (Returned /\ route.kind = "page" /\ ~IsResponse(page_result)) =>
          /\ handed.kind = "tuple"
          /\ handed.metadata = metadata_result
          /\ route.metadata_dep.kind = "lambda" =>
                metadata_result = MetaMap(route.metadata_dep.obj.items)
          /\ route.metadata_dep.kind = "empty_metadata_dep" => metadata_result = MetaNone
    /\ (pc = "sent" /\ route.kind = "page" /\ ~IsResponse(page_result)) =>
          /\ rendered.context.is_none = FALSE
          /\ rendered.context.items = metadata_result.items
          /\ HasLayout(handed.content) => rendered.title = TitleOf(metadata_result)

\* a page without metadata was rendered in a layout, which read the default title
C9_Witness ==
    /\ pc = "sent"
    /\ route.tags = <<"Page">>
    /\ route.metadata_dep = empty_metadata_dep
    /\ metadata_result = MetaNone
    /\ HasLayout(handed.content)
    /\ rendered.title = "App"

\* the descriptors of the actions the directory of the route registers
DescriptorsAt(dir) == modules[dir].page.actions \cup modules[dir].actions.actions

\* C11: an action registered with use_layout is rendered in the layout chain
\* of its directory exactly as a page of that directory; without use_layout
\* no layout is called and its value is rendered as it is; declared metadata
\* is resolved and handed to rendering in both cases; an action with neither
\* is registered directly.
C11_ActionRegistration ==
    (Returned /\ route.tags = <<"Action">> /\ ~IsResponse(page_result) /\ NoMarkerReturned) =>
        \E desc \in DescriptorsAt(route.dir) :
            LET chain == LayoutsAbove(route.dir, 1)
                n == Len(chain)
            IN /\ desc.action.id = route.page_dep
               /\ desc.use_layout =>
                     /\ route.kind = "page"
                     /\ Len(calls) = n
                     /\ \A k \in 1..n : calls[k].layout = chain[n - k + 1].id
                     /\ handed.content = Composed(n)
               /\ ~desc.use_layout =>
                     /\ calls = <<>>
                     /\ handed.content = IF route.kind = "plain" THEN page_result
                                          ELSE as_component_type(page_result)
               /\ ~IsNone(desc.metadata) =>
                     /\ route.kind = "page"
                     /\ handed.kind = "tuple"
                     /\ handed.metadata = metadata_result
                     /\ IsMapping(desc.metadata) => metadata_result = MetaMap(desc.metadata.items)
               /\ (route.kind = "plain") <=> (~desc.use_layout /\ IsNone(desc.metadata))

\* an action of the actions module beside the chain was rendered in the
\* layout of its directory and the root layout, with the metadata it declares
C11_Witness ==
    /\ pc = "sent"
    /\ route.page_dep = "full_action"
    /\ Len(calls) = 2
    /\ calls[1].layout = "ab"
    /\ calls[2].layout = "root"
    /\ ~metadata_result.is_none
    /\ NoMarkerReturned
    /\ rendered.error = ""

--------------------------------------------------------------------------
(* Properties of action registration, under SpecAct *)

\* the path a decorator application registers under
PathOf(dec) == IF dec.path.is_none THEN <<"/">> \o dec.func.name ELSE dec.path.value

\* the decorator applications on functions of the same module, before or
\* after the i-th one
OthersInModule(i) ==
    {j \in 1..Len(registrations) :
        j # i /\ registrations[j].func.module = registrations[i].func.module}

\* the registry of its module holds the i-th registration as it was made
Kept(i) ==
    LET dec == registrations[i]
        stored == {d \in action_descriptors[dec.func.module] : d.path = PathOf(dec)}
    IN /\ Cardinality(stored) = 1
       /\ \A d \in stored :
             /\ d.action = dec.func
             /\ d.use_layout = dec.use_layout
             /\ d.metadata = dec.metadata
             /\ d.route_args.methods = <<dec.method>>

\* a request for the path and method of the i-th registration is served by
\* its function
Served(i) ==
    (request # <<>> /\ request.path = PathOf(registrations[i])
                   /\ request.method = registrations[i].method) =>
        /\ route # NoRoute
        /\ route.page_dep = registrations[i].func.id
        /\ page_result # NoValue =>
              \E outcome \in PageOutcomes :
                  page_result = PageValue(registrations[i].func.id, outcome)

\* C12: registrations of one module under pairwise different paths are all
\* in its registry, one descriptor per path, each with the function that was
\* decorated, whatever was registered before or after; a request to such a
\* path invokes that function.
C12_EveryPathKept ==
    \A i \in 1..Len(registrations) :
        (\A j \in OthersInModule(i) : PathOf(registrations[j]) # PathOf(registrations[i])) =>
            /\ Kept(i)
            /\ (\A j \in 1..Len(registrations) :
                    j # i => PathOf(registrations[j]) # PathOf(registrations[i]))
                 => Served(i)

\* one function was decorated three times with different paths, the first
\* time without a path, and a request to the first path invoked it
C12_Witness ==
    /\ Len(registrations) = 3
    /\ \A i \in 1..3 : registrations[i].func = func_f
    /\ registrations[1].path = PyNone
    /\ Cardinality({PathOf(registrations[i]) : i \in 1..3}) = 3
    /\ request = [path |-> path_f, method |-> "GET"]
    /\ page_result = Component("f")

\* C13: registrations of one module under the same path with different
\* methods are all kept, and a request to the path with each method is served
\* by the function registered for that method.
C13_EveryMethodKept ==
    \A i \in 1..Len(registrations) :
        (\A j \in OthersInModule(i) :
            PathOf(registrations[j]) = PathOf(registrations[i])
                => registrations[j].method # registrations[i].method) =>
            /\ \E d \in action_descriptors[registrations[i].func.module] :
                  /\ d.path = PathOf(registrations[i])
                  /\ d.route_args.methods = <<registrations[i].method>>
                  /\ d.action = registrations[i].func
            /\ (\A j \in 1..Len(registrations) :
                    registrations[j].func.module # registrations[i].func.module
                        => PathOf(registrations[j]) # PathOf(registrations[i]))
                 => Served(i)

\* the i-th registration is the last one of its module under its path
LastUnderPath(i) ==
    \A j \in OthersInModule(i) :
        j > i => PathOf(registrations[j]) # PathOf(registrations[i])

--------------------------------------------------------------------------
(* Properties of metadata resolution, under SpecMeta *)

\* C10: get_metadata_dependency yields a dependency producing None when the
\* owner has no metadata (or None), a dependency always producing the same
\* mapping for a static mapping (the empty one included), the metadata object
\* itself for a callable that is no mapping, and a ValueError otherwise.
C10_MetadataDependency ==
    pc # "start" =>
        /\ IsNone(owner) =>
              /\ pc = "bound"
              /\ metadata_dep = empty_metadata_dep
              /\ \A i \in 1..Len(resolved) : resolved[i] = MetaNone
        /\ owner.shape \in {"mapping", "callable_mapping"} =>
              /\ pc = "bound"
              /\ metadata_dep.kind = "lambda"
              /\ \A i \in 1..Len(resolved) : resolved[i] = MetaMap(owner.items)
        /\ owner.shape = "callable" =>
              /\ pc = "bound"
              /\ metadata_dep = [kind |-> "object", obj |-> owner]
        /\ owner.shape = "other" =>
              /\ pc = "failed"
              /\ error = "ValueError: Invalid metadata object"
              /\ metadata_dep = NoDep
              /\ resolved = <<>>

\* the dependency of an empty static mapping has produced it for every request
C10_Witness ==
    /\ pc = "bound"
    /\ owner = MetadataAttr("mapping", {})
    /\ Len(resolved) = MaxRequests
    /\ resolved[MaxRequests] = MetaMap({})

--------------------------------------------------------------------------
(* Properties of package discovery, under SpecPkg *)

\* the segments of a package directory below the application directory
SubDir(dir, cfg) == SubSeq(dir, Len(cfg.app_dir) + 1, Len(dir))

IsDynamic(seg) == Len(seg) > 2 /\ Head(seg) = "_" /\ seg[Len(seg)] = "_"

\* the URL the claim describes, built segment by segment
RECURSIVE SegmentsUrl(_)
SegmentsUrl(sub) ==
    IF sub = <<>> THEN <<>>
    ELSE <<"/">>
         \o (IF IsDynamic(Head(sub))
               THEN <<"{">> \o SubSeq(Head(sub), 2, Len(Head(sub)) - 1) \o <<"}">>
               ELSE Head(sub))
         \o SegmentsUrl(Tail(sub))

IsPrivate(seg) == Head(seg) = "_" /\ seg[Len(seg)] # "_"

IsHidden(seg) == Head(seg) = "."

\* C7: discovery yields a package for a directory exactly if the directory
\* holds a file whose base name is a recognized role name and no segment of
\* its path is private (leading "_" without trailing "_") or starts with ".".
C7_DiscoveredIff ==
    pc = "discovered" =>
        /\ \A p \in packages : p.package_dir = package_dir
        /\ (packages # {}) <=>
               /\ stems \cap {"page", "layout", "actions", "api", "error"} # {}
               /\ \A i \in 1..Len(package_dir) :
                      ~IsPrivate(package_dir[i]) /\ ~IsHidden(package_dir[i])

\* a directory with a page below a private directory has been skipped
C7_Witness ==
    /\ pc = "discovered"
    /\ "page" \in stems
    /\ SubDir(package_dir, config) = << <<"_", "a">>, <<"a">> >>
    /\ packages = {}

--------------------------------------------------------------------------
(* Properties of the tree build, under SpecTree *)

DistinctUrls(S) == \A p, q \in S : p # q => p.url # q.url

\* C4: for packages with pairwise distinct URLs the build succeeds, every
\* node that holds a package has the URL of that package, and every package
\* is held by exactly one node.
C4_TreeHoldsEveryPackage ==
    (pc # "adding" /\ DistinctUrls(packages)) =>
        /\ pc = "built"
        /\ error = ""
        /\ \A id \in DOMAIN tree :
              tree[id].package # NoPackage => tree[id].package.url = tree[id].url
        /\ \A p \in packages :
              Cardinality({id \in DOMAIN tree : tree[id].package = p}) = 1

\* a tree of three packages was built without a package at the root and
\* without packages at the nodes above its deepest package
C4_Witness ==
    /\ pc = "built"
    /\ Cardinality(packages) = MaxPackages
    /\ tree[RootId].package = NoPackage
    /\ \E id \in DOMAIN tree :
          /\ Len(id) = 3
          /\ tree[id].package # NoPackage
          /\ tree[SubSeq(id, 1, 1)].package = NoPackage
          /\ tree[SubSeq(id, 1, 2)].package = NoPackage

\* C5: the build fails with the configuration error of a package that is
\* already set exactly at the add of a package whose URL an earlier package
\* of the order has, wherever the two stand in the order.
C5_DuplicateUrlFails ==
    /\ error = "" =>
          \A i, j \in 1..n_added : i # j => order[i].url # order[j].url
    /\ error # "" =>
          /\ error = "ValueError: Package already set"
          /\ pc = "failed"
          /\ \E j \in 1..n_added : order[j].url = order[n_added + 1].url

\* the third add failed on a nested URL that the first package has
C5_Witness ==
    /\ pc = "failed"
    /\ n_added = 2
    /\ order[1].url = order[3].url
    /\ order[3].url = <<"/", "a", "/", "{", "a", "}">>

--------------------------------------------------------------------------
(* Properties of route registration, under Spec *)

\* the application was built
Built == pc \notin {"init", "failed"} /\ modules # <<>>

\* the indices of the routes with a name
RoutesNamed(name) == {i \in 1..Len(app_routes) : app_routes[i].name = name}

\* the URL of the node of a package directory, followed by "/"
PagePath(dir) == SegmentsUrl(SubDir(dir, config)) \o <<"/">>

\* C15: a callable handle_submit of a page module is the POST route on the
\* path of the page, named "<page module name>.handle_submit", built like the
\* page route: the layout chain of the node and the metadata resolver of the
\* page module are applied to what the submit handler returns.
C15_SubmitHandlerLikePage ==
    /\ Built =>
          \A dir \in DOMAIN modules :
              modules[dir].page # NoModule =>
                  LET page_module == modules[dir].page
                      submits == RoutesNamed(page_module.name
                                     \o <<".", "h", "a", "n", "d", "l", "e", "_",
                                          "s", "u", "b", "m", "i", "t">>)
                  IN /\ Cardinality(submits) = IF page_module.handle_submit THEN 1 ELSE 0
                     /\ \A i \in submits : \E j \in RoutesNamed(page_module.name) :
                           /\ app_routes[i].method = "POST"
                           /\ app_routes[j].method = "GET"
                           /\ app_routes[i].path = PagePath(dir)
                           /\ app_routes[i].path = app_routes[j].path
                           /\ app_routes[i].kind = app_routes[j].kind
                           /\ app_routes[i].layout_dep = app_routes[j].layout_dep
                           /\ app_routes[i].metadata_dep = app_routes[j].metadata_dep
                           /\ app_routes[i].page_dep = "handle_submit"
    /\ (Returned /\ route.tags = <<"Page", "Submit">> /\ ~IsResponse(page_result)
                 /\ NoMarkerReturned) =>
          LET chain == LayoutsAbove(route.dir, 1)
              n == Len(chain)
          IN /\ page_result \in {PageValue("handle_submit", o) : o \in PageOutcomes}
             /\ Len(calls) = n
             /\ \A k \in 1..n : calls[k].layout = chain[n - k + 1].id
             /\ handed = Handed("tuple", Composed(n), metadata_result)
             /\ IsMapping(modules[route.dir].page.metadata) =>
                   metadata_result = MetaMap(modules[route.dir].page.metadata.items)

\* the submit handler of a page below two layouts was rendered in both,
\* with the title of the page module
C15_Witness ==
    /\ pc = "sent"
    /\ route.method = "POST"
    /\ route.page_dep = "handle_submit"
    /\ route.dir = dir_dyn
    /\ Len(calls) >= 2
    /\ NoMarkerReturned
    /\ rendered.title = "X"

\* the values a request gives to the path parameters of the directory
RECURSIVE ParamsOf(_)
ParamsOf(sub) ==
    IF sub = <<>> THEN <<>>
    ELSE (IF IsDynamic(Head(sub))
          THEN (SubSeq(Head(sub), 2, Len(Head(sub)) - 1) :> <<"1">>)
          ELSE <<>>)
         @@ ParamsOf(Tail(sub))

\* the URL of the node with the parameters substituted, followed by "/"
RECURSIVE SubstitutedUrl(_, _)
SubstitutedUrl(sub, path_params) ==
    IF sub = <<>> THEN <<"/">>
    ELSE <<"/">>
         \o (IF IsDynamic(Head(sub))
               THEN path_params[SubSeq(Head(sub), 2, Len(Head(sub)) - 1)]
               ELSE Head(sub))
         \o SubstitutedUrl(Tail(sub), path_params)

\* C16: every page is one GET route with the import name of its page module
\* as name and the URL of its node followed by "/" as path, dynamic segments
\* as path parameters; resolving the name with the path parameters yields the
\* URL with the parameters substituted and a trailing slash.
C16_PageRouteNameAndPath ==
    Built =>
        \A dir \in DOMAIN modules :
            modules[dir].page # NoModule =>
                LET named == RoutesNamed(modules[dir].page.name)
                    sub == SubDir(dir, config)
                IN /\ Cardinality(named) = 1
                   /\ \A i \in named :
                         /\ app_routes[i].method = "GET"
                         /\ app_routes[i].tags = <<"Page">>
                         /\ app_routes[i].page_dep = "page"
                         /\ app_routes[i].path = PagePath(dir)
                   /\ url_path_for(app_routes, modules[dir].page.name, ParamsOf(sub))
                         = SubstitutedUrl(sub, ParamsOf(sub))

\* the page below a path parameter directory resolves to /a/1/
C16_Witness ==
    /\ pc = "serving"
    /\ modules[dir_dyn].page # NoModule
    /\ modules[dir_a] = NoFiles
    /\ url_path_for(app_routes, ModuleName(dir_dyn, page_py), (<<"a">> :> <<"1">>))
          = <<"/", "a", "/", "1", "/">>

--------------------------------------------------------------------------
(* Properties of the build of an application with faults, under SpecBuild *)

\* App() has returned or raised
Constructed == pc \in {"serving", "failed"}

\* the modules of the application whose import raises
Raising(mods) ==
    {f \in [dir : DOMAIN mods, name : {"layout", "page", "actions", "api", "error"}] :
        IsFile(mods[f.dir], f.name) /\ f.name \in mods[f.dir].raises}

\* the application without the files of the modules whose import raises
WithoutRaising(mods) ==
    [d \in DOMAIN mods |->
        PackageFiles(IF "layout" \in mods[d].raises THEN NoLayout ELSE mods[d].layout,
                     IF "page" \in mods[d].raises THEN NoModule ELSE mods[d].page,
                     IF "actions" \in mods[d].raises THEN NoModule ELSE mods[d].actions,
                     IF "api" \in mods[d].raises THEN NoApi ELSE mods[d].api,
                     IF "error" \in mods[d].raises THEN NoHandlers ELSE mods[d].handlers,
                     {},
                     mods[d].not_callable \ mods[d].raises)]

\* what App() makes of an application
Constructs(mods) ==
    {Construct(mods, ord) :
        ord \in IterationOrders(_discover_app_packages(config, FilesOf(mods)))}

Logged == {log[i] : i \in 1..Len(log)}

\* C17: when the import of modules of the application raises, App() ends as
\* it does for the application without the files of these modules, with the
\* same routes, error handlers and outcome, and when it completes a warning
\* was logged for each of these modules.
C17_FailingImportIsAbsence ==
    (Constructed /\ Raising(modules) # {}) =>
        /\ \E same \in Constructs(WithoutRaising(modules)) :
              /\ app_routes = same.routes
              /\ exception_handlers = same.handlers
              /\ error = same.error
        /\ pc = "serving" => Raising(modules) \subseteq Logged

\* the import of the page module of a directory raised, App() completed, the
\* warning was logged, the directory has routes, and none of them is a route
\* of the page module
C17_Witness ==
    /\ pc = "serving"
    /\ [dir |-> dir_a, name |-> "page"] \in Raising(modules)
    /\ [dir |-> dir_a, name |-> "page"] \in Logged
    /\ \E i \in 1..Len(app_routes) : app_routes[i].dir = dir_a
    /\ \A i \in 1..Len(app_routes) :
          app_routes[i].dir = dir_a => app_routes[i].page_dep \notin {"page", "handle_submit"}

\* the modules App() gets from import_module: the files whose import does
\* not raise
Importable(mods) == WithoutRaising(mods)

\* two package directories have the same URL
DuplicateUrl(mods) ==
    \E p1, p2 \in _discover_app_packages(config, FilesOf(mods)) :
        p1.package_dir # p2.package_dir /\ p1.url = p2.url

\* a module imports without the attribute its kind must have: a callable
\* layout or page, a registered action, an api that is a router or
\* callable, handlers (of the root) that are a mapping or callable
InvalidShape(mods) ==
    \E d \in DOMAIN mods :
        LET p == Importable(mods)[d] IN
        \/ p.layout # NoLayout /\ "layout" \in p.not_callable
        \/ p.page # NoModule /\ "page" \in p.not_callable
        \/ p.actions # NoModule /\ p.actions.actions = {}
        \/ p.api # NoApi /\ p.api.shape = "other"
        \/ d = dir_root /\ p.handlers # NoHandlers /\ p.handlers.shape = "other"

\* the layout function of a layout module declares no parameter
LayoutWithoutParameter(mods) ==
    \E d \in DOMAIN mods :
        LET p == Importable(mods)[d] IN p.layout # NoLayout /\ ~p.layout.has_props

\* the metadata of a page module or of an action is neither a mapping nor
\* a callable
InvalidMetadata(mods) ==
    \E d \in DOMAIN mods :
        LET p == Importable(mods)[d] IN
        \/ p.page.metadata.shape = "other"
        \/ \E a \in p.page.actions \cup p.actions.actions : a.metadata.shape = "other"

\* the api factory of an api module takes two parameters or returns
\* something that is not a router
ApiFactoryWithoutRouter(mods) ==
    \E d \in DOMAIN mods :
        LET p == Importable(mods)[d] IN
        p.api.shape = "callable" /\ (p.api.num_params > 1 \/ p.api.returns # "APIRouter")

Misconfigured(mods) ==
    \/ DuplicateUrl(mods)
    \/ InvalidShape(mods)
    \/ LayoutWithoutParameter(mods)
    \/ InvalidMetadata(mods)
    \/ ApiFactoryWithoutRouter(mods)

\* C18: an application with a duplicate package URL, a module of invalid
\* shape, a layout without parameter, invalid metadata or an api factory
\* that yields no router makes App() raise: it has no routes and never
\* serves a request.
C18_MisconfigurationRaisesInApp ==
    (Constructed /\ Misconfigured(modules)) =>
        pc = "failed" /\ error # "" /\ app_routes = <<>>

\* the only fault of the application is a root layout without parameter,
\* and App() raised the error of layout_to_dependency
C18_Witness ==
    /\ pc = "failed"
    /\ LayoutWithoutParameter(modules)
    /\ ~DuplicateUrl(modules) /\ ~InvalidShape(modules)
    /\ ~InvalidMetadata(modules) /\ ~ApiFactoryWithoutRouter(modules)
    /\ error = "ValueError: Layout factory must at least one argument."


\* the api attribute of the api module the directory imports: NoApi when
\* there is no api.py or its import raises
ImportedApi(dir) == Importable(modules)[dir].api

\* a router, or a factory without parameters or with the htmy parameter
\* that returns a router
AcceptableApi(api) ==
    \/ api.shape = "APIRouter"
    \/ api.shape = "callable" /\ api.num_params \in {0, 1} /\ api.returns = "APIRouter"

\* how the router of an acceptable api attribute is obtained
HowObtained(api) ==
    IF api.shape = "APIRouter" THEN "api"
    ELSE IF api.num_params = 0 THEN "api()"
    ELSE "api(htmy)"

\* the build gets to the directory: no two directories share a URL and the
\* root package has no fault
BuildReaches(dir) ==
    /\ ~DuplicateUrl(modules)
    /\ ~Misconfigured([d \in {dir_root} |-> modules[d]])

\* the positions of the routes of the directory in the application
RoutesOfDir(dir) == {i \in 1..Len(app_routes) : app_routes[i].dir = dir}

api_error == "ValueError: The api function must return an APIRouter."

\* C19: an api attribute that is a router, or a callable with 0 or 1
\* parameters that returns a router when called without arguments or with
\* the renderer, gives the router of the node, to which the routes of the
\* other modules are added; any other api attribute of an imported api
\* module makes App() raise a ValueError when the build gets to the package.
C19_ApiAttribute ==
    (Constructed /\ ImportedApi(dir_a) # NoApi) =>
        LET api == ImportedApi(dir_a) IN
        IF AcceptableApi(api)
        THEN /\ error # api_error
             /\ pc = "serving" =>
                   \E i \in RoutesOfDir(dir_a) :
                      /\ app_routes[i].kind = "api"
                      /\ app_routes[i].page_dep = HowObtained(api)
                      /\ \A j \in RoutesOfDir(dir_a) \ {i} :
                            i < j /\ app_routes[j].kind # "api"
        ELSE BuildReaches(dir_a) =>
                /\ pc = "failed"
                /\ app_routes = <<>>
                /\ error = IF api.shape = "callable" THEN api_error
                           ELSE "ValueError: Invalid module"

\* the api attribute is a factory with the htmy parameter, and the router it
\* returned holds the api route and, after it, the route of the page
C19_Witness ==
    /\ pc = "serving"
    /\ ImportedApi(dir_a) = ApiAttr("callable", 1, "APIRouter")
    /\ \E i, j \in RoutesOfDir(dir_a) :
          /\ i < j
          /\ app_routes[i].page_dep = "api(htmy)"
          /\ app_routes[j].page_dep = "page"

\* the handlers attribute of the error module the root package imports
ImportedHandlers == Importable(modules)[dir_root].handlers

\* C20: App() registers a wrapped handler under every key of the handlers
\* of the root error module; when the wrapped handler runs, a Response the
\* handler returned is returned as it is, any other value is rendered and
\* returned as an HTMLResponse, and when the rendering raises, a ValueError
\* is raised from that exception and no response is returned.
C20_ErrorHandlersWrapped ==
    /\ pc = "serving" => exception_handlers = ImportedHandlers.keys
    /\ \A i \in 1..Len(error_response) :
          LET result == error_response[i].result
              outcome == error_response[i].outcome
          IN /\ error_response[i].key \in ImportedHandlers.keys
             /\ IF result.tag = "Response"
                THEN outcome = Handled(result, "", "")
                ELSE IF ~HasMarker(result)
                THEN /\ outcome.response.tag = "HTMLResponse"
                     /\ outcome.response.kids = <<result>>
                     /\ outcome.error = ""
                ELSE /\ outcome.response = NoValue
                     /\ outcome.error = "ValueError: HTML rendering failed."
                     /\ outcome.cause = "RuntimeError: without_layout in the component tree"

\* the handlers attribute is a callable; the handler under a key it
\* returned gave a value whose rendering raised, and the wrapper raised the
\* ValueError
C20_Witness ==
    /\ ImportedHandlers.shape = "callable"
    /\ Len(error_response) = 1
    /\ error_response[1].key = "Exception"
    /\ error_response[1].result = without_layout(Component("error_page"))
    /\ error_response[1].outcome.cause # ""

--------------------------------------------------------------------------
(* Properties of the order of the steps of a request, under Spec *)

\* the steps of a request to a page-like route, each with the step that may
\* follow it
StepOrder ==
    { <<"page", "metadata">>, <<"metadata", "layout">>, <<"layout", "body">>,
      <<"body", "composing">>, <<"body", "returned">>,
      <<"composing", "returned">>, <<"returned", "sent">> }

\* C21: in a request to a page-like route the page (action) is resolved
\* first, then the metadata, then the layout factory of the chain; only then
\* are the layouts called, and the result is handed to rendering after the
\* last of them returned; every step begins where the previous one ended.
C21_StepsInOrder ==
    [][route.kind = "page" =>
          /\ pc' # pc => <<pc, pc'>> \in StepOrder
          /\ page_result' # page_result => pc = "page"
          /\ metadata_result' # metadata_result => pc = "metadata"
          /\ layout_factory' # layout_factory => pc = "layout"
          /\ calls' # calls => pc = "composing" /\ pc' \in {"composing", "returned"}
          /\ handed' # handed => pc \in {"body", "composing"} /\ pc' = "returned"
          /\ rendered' # rendered => pc = "returned" /\ pc' = "sent"]_vars

\* a request to a page below two layouts went through every step: the
\* metadata was resolved to a mapping, both layouts were called and the
\* result was rendered
C21_Witness ==
    /\ pc = "sent"
    /\ route.kind = "page"
    /\ ~metadata_result.is_none
    /\ Len(layout_factory) = 2
    /\ Len(calls) = 2
    /\ handed.kind = "tuple"
    /\ rendered # NotRendered

--------------------------------------------------------------------------
(* Properties of requests whose dependencies raise, under SpecDeps *)

\* C22: when a dependency of a route raises, the host framework gets the
\* exception that was raised; nothing is returned to rendering and no layout
\* is called; when the page (action) dependency or a route-level dependency
\* raised, neither the metadata nor the layout factory was resolved, and
\* when the metadata dependency raised, the layout factory was not resolved.
C22_ErrorsPropagate ==
    pc = "raised" =>
        /\ propagated.raised \in Exceptions
        /\ propagated.error = propagated.raised
        /\ handed = NotHanded /\ rendered = NotRendered /\ calls = <<>>
        /\ propagated.by \in {"route", "page"} =>
              /\ page_result = NoValue
              /\ metadata_result = MetaNone
              /\ layout_factory = empty_layout_dependency
        /\ propagated.by = "metadata" =>
              layout_factory = empty_layout_dependency

\* the page dependency of a page-like route with a metadata resolver, below
\* a layout, raised an HTTP error
C22_Witness ==
    /\ pc = "raised"
    /\ propagated = Propagate("page", "HTTPException(499)")
    /\ route.kind = "page"
    /\ route.metadata_dep.kind = "object"
    /\ route.layout_dep # empty_layout_dependency

--------------------------------------------------------------------------
(* Properties of the combination of layouts, under Spec *)

\* layouts to combine with the layout dependency of a route
outer1 == "outer1"
inner1 == "inner"
ExtraLayouts(id) == {Layout(id, FALSE), Layout(id, TRUE)}

\* what the layouts of a dependency and the two extra ones do when none of
\* them returns the marker
OutcomesWithoutMarker(dep) ==
    [{dep[i].id : i \in 1..Len(dep)} \cup {outer1, inner1} -> {"component", "sequence"}]

\* layout(props) awaited and normalized, as a combined factory hands it to
\* its outer factory
Wrapped(layout, props, outcome_of) ==
    as_component_type(LayoutBody(layout, props, outcome_of[layout.id]))

\* what the layouts called in the request did
OutcomesOfCalls ==
    [id \in {calls[k].layout : k \in 1..Len(calls)} |->
        calls[CHOOSE k \in 1..Len(calls) : calls[k].layout = id].outcome]

\* C23: combine_layouts_to_dependency(outer, None) is outer; otherwise the
\* factory of the combination applied to props is outer(inner(props)) when
\* inner does not return the marker, so that combining the dependency of a
\* route with outer1 and then with inner gives base(outer1(inner(props))),
\* and the layout dependency of a page, combined along its directories,
\* gives what the flat chain of the layouts of these directories gives.
C23_CombinationIsNesting ==
    LET base == route.layout_dep
        props == as_component_type(page_result)
    IN /\ (pc = "body" /\ route.kind = "page") =>
             /\ combine_layouts_to_dependency(base, NoLayout) = base
             /\ \A o \in ExtraLayouts(outer1), n \in ExtraLayouts(inner1),
                   oc \in OutcomesWithoutMarker(base) :
                   /\ CallLayoutFactory(combine_layouts_to_dependency(base, n), props, oc)
                         = CallLayoutFactory(base, Wrapped(n, props, oc), oc)
                   /\ CallLayoutFactory(
                          combine_layouts_to_dependency(
                              combine_layouts_to_dependency(base, o), n), props, oc)
                         = CallLayoutFactory(base, Wrapped(o, Wrapped(n, props, oc), oc), oc)
       /\ (pc = "returned" /\ route.kind = "page") =>
             /\ Head(route.tags) = "Page" => base = LayoutsAbove(route.dir, 1)
             /\ (~IsResponse(page_result) /\ NoMarkerReturned) =>
                   handed.content = CallLayoutFactory(base, props, OutcomesOfCalls)

\* a page in a path parameter directory with a layout, below a directory
\* without layout and a root with one: the combination for the directory
\* in between was the dependency of the root, and the page was wrapped by
\* the inner and then the root layout
C23_Witness ==
    /\ pc = "returned"
    /\ route.tags = <<"Page">>
    /\ route.dir = dir_dyn
    /\ modules[dir_a].layout = NoLayout
    /\ page_result = Component("page")
    /\ route.layout_dep = <<modules[dir_root].layout, modules[dir_dyn].layout>>
    /\ Len(route.layout_dep) = 2
    /\ \A k \in 1..Len(calls) : calls[k].outcome = "component"
    /\ handed.content = Element("root", Element("dyn", Component("page")))

--------------------------------------------------------------------------
(* Properties of synchronous and asynchronous layouts, under Spec *)

\* a pending result is somewhere in the value
RECURSIVE HasPending(_)
HasPending(v) ==
    v.tag = "awaitable" \/ \E i \in 1..Len(v.kids) : HasPending(v.kids[i])

\* the chain of the same layout functions, all synchronous
AllSync(dep) == [i \in 1..Len(dep) |-> Layout(dep[i].id, FALSE)]

\* what the layouts of the chain did in the request; a layout that was not
\* called has no part in the result
OutcomesInRequest(dep) ==
    [id \in {dep[i].id : i \in 1..Len(dep)} |->
        IF \E k \in 1..Len(calls) : calls[k].layout = id
        THEN calls[CHOOSE k \in 1..Len(calls) : calls[k].layout = id].outcome
        ELSE "component"]

\* C24: whichever layouts of a chain are coroutine functions, the layouts
\* are called in the order and with the props of the all-synchronous chain
\* of the same functions and the result handed to rendering is the same;
\* no pending result is passed to a layout, tested for the marker or
\* handed to rendering.
C24_AsyncLikeSync ==
    /\ ~HasPending(page_result) /\ ~HasPending(cur_props) /\ ~HasPending(handed.content)
    /\ \A k \in 1..Len(calls) :
          /\ ~HasPending(calls[k].props)
          /\ calls[k].layout = layout_factory[Len(layout_factory) - k + 1].id
          /\ calls[k].props = Composed(k - 1)
    /\ (Returned /\ route.kind = "page" /\ PathOperationBranch(page_result) = "layout") =>
          handed.content = CallLayoutFactory(AllSync(layout_factory),
                                             as_component_type(page_result),
                                             OutcomesInRequest(layout_factory))

\* a chain of an asynchronous layout between two synchronous ones wrapped
\* a page; the asynchronous layout returned a sequence
C24_Witness ==
    /\ pc = "returned"
    /\ Len(layout_factory) = 3
    /\ ~layout_factory[1].is_async
    /\ layout_factory[2].is_async
    /\ ~layout_factory[3].is_async
    /\ Len(calls) = 3
    /\ calls[2].outcome = "sequence"
    /\ handed.content =
          Element("root", Fragment(<<Element("a", Element("dyn", Component("page")))>>))

--------------------------------------------------------------------------
(* Properties of the tree in every state of the build, under SpecTree *)

\* the add of the next package of the order is under way
Adding == pc = "adding" /\ n_added < Len(order)

\* C25: in every state of the tree the URL of a node is a strict prefix of
\* the URL of each of its children; a node keeps its URL, and its package
\* once it has one; and the add of a package whose URL belongs to a node
\* that holds a package raises.
C25_TreeInvariant ==
    /\ [](\A id \in DOMAIN tree :
            \A c \in Children(tree, id) :
                /\ StartsWith(tree[c].url, tree[id].url)
                /\ Len(tree[c].url) > Len(tree[id].url))
    /\ [][/\ \A id \in DOMAIN tree :
               /\ id \in DOMAIN tree'
               /\ tree'[id].url = tree[id].url
               /\ tree[id].package # NoPackage => tree'[id].package = tree[id].package
          /\ (Adding /\ \E id \in DOMAIN tree :
                          /\ tree[id].url = order[n_added + 1].url
                          /\ tree[id].package # NoPackage)
                => pc' = "failed" /\ error' = "ValueError: Package already set"]_vars

\* the add of a third package failed at a node two levels below the root
\* that holds the package added first, after its parent got the second
\* package; the node kept its package
C25_Witness ==
    /\ pc = "failed"
    /\ error = "ValueError: Package already set"
    /\ \E id \in DOMAIN tree :
          /\ Len(id) = 2
          /\ tree[id].package = order[1]
          /\ tree[id].url = order[n_added + 1].url
          /\ tree[SubSeq(id, 1, 1)].package = order[2]

--------------------------------------------------------------------------
(* Properties of the set of discovered packages, under SpecDiscovery *)

\* C26: two packages of the discovered set are equal if and only if their
\* import names are equal, so the set holds at most one package for an
\* import name.
C26_EqualIffSameImportName ==
    pc = "discovered" =>
        \A p1, p2 \in packages : (p1 = p2) <=> (p1.package_name = p2.package_name)

--------------------------------------------------------------------------
(* Properties of the configuration, under SpecConfig *)

\* a package of the library: the library's root package or one below it
InLibrary(name) == name = lib_root \/ StartsWith(name, lib_root \o <<".">>)

\* positions of the caller frames that lie outside the library
OutsideFrames ==
    {i \in 2..Len(stack) : stack[i].has_package /\ ~InLibrary(stack[i].caller_package)}

FirstOutside == CHOOSE i \in OutsideFrames : \A j \in OutsideFrames : i <= j

EveryFrameHasPackage == \A i \in 1..Len(stack) : stack[i].has_package

\* C27: once AppConfig.default ended, on a stack whose frames all have a
\* package the application package is the package of the first caller frame
\* outside the library, whatever its name, and the call raised ValueError
\* exactly when no frame is outside the library; the URL-prefix length is
\* the length of the name plus 1, or 0 for the empty name.
C27_FirstFrameOutsideLibrary ==
    pc # "start" =>
        /\ (EveryFrameHasPackage /\ OutsideFrames # {}) =>
                /\ pc = "configured"
                /\ config.app_dir_name = stack[FirstOutside].caller_package
        /\ OutsideFrames = {} =>
                /\ pc = "failed"
                /\ error = "ValueError: Could not determine the application package."
        /\ pc = "configured" =>
                config.app_url_prefix_length =
                    IF config.app_dir_name = <<>> THEN 0
                    ELSE Len(config.app_dir_name) + 1

--------------------------------------------------------------------------
(* Properties of the order of the adds, under SpecTree *)

\* the orders in which the loop of _build_app_tree can meet the packages
OrdersOf(S) == {q \in Orders(S, Cardinality(S)) : Len(q) = Cardinality(S) /\ NoRepeat(q)}

\* the tree _build_app_tree returns for one order
TreeOf(q) == _build_app_tree(q, [tree |-> RootTree, error |-> ""])

\* C28: for packages with pairwise distinct URLs the tree that was built is
\* the tree of every other order of the same packages: the same node ids
\* (the segment keys from the root, hence the same parent-child relation),
\* with the same URL and the same package at every node.
C28_OrderOfAddsIrrelevant ==
    (pc = "built" /\ DistinctUrls(packages)) =>
        \A q \in OrdersOf(packages) :
            /\ TreeOf(q).error = ""
            /\ DOMAIN TreeOf(q).tree = DOMAIN tree
            /\ \A id \in DOMAIN tree :
                  /\ TreeOf(q).tree[id].url = tree[id].url
                  /\ TreeOf(q).tree[id].package = tree[id].package

\* three packages of distinct URLs were added, the first of them below the
\* second, under a node that holds no package
C28_Witness ==
    /\ pc = "built"
    /\ Len(order) = 3
    /\ DistinctUrls(packages)
    /\ StartsWith(order[1].url, order[2].url \o <<"/">>)
    /\ \E id \in DOMAIN tree : id # RootId /\ tree[id].package = NoPackage

--------------------------------------------------------------------------
(* Properties of the dependencies of a page-like route, under SpecDeps *)

SkipsLayouts == PathOperationBranch(page_result) \in {"Response", "without_layout"}

\* C29: in a request to a page-like route the body of the handler runs with
\* the metadata dependency and the layout factory of the whole chain
\* resolved, whatever the page value is; for a Response or a value with the
\* marker no layout function is called, and a metadata or layout dependency
\* that raises ends the request with its exception, nothing being returned
\* or rendered.
C29_DependenciesResolvedBeforeBody ==
    route.kind = "page" =>
        /\ pc \in {"body", "composing", "returned", "sent"} =>
              /\ layout_factory = route.layout_dep
              /\ \E produced \in IF route.metadata_dep.kind = "object"
                                   THEN MetadataResults ELSE {MetaNone} :
                    metadata_result = CallMetadataDep(route.metadata_dep, produced)
              /\ propagated = NoException
        /\ SkipsLayouts => calls = <<>> /\ pending = <<>>
        /\ (pc = "raised" /\ propagated.by \in {"metadata", "layout"}) =>
              /\ page_result # NoValue
              /\ propagated.error = propagated.raised
              /\ handed = NotHanded
              /\ rendered = NotRendered
              /\ calls = <<>>

\* the page returned a Response, the metadata was resolved to a mapping, and
\* a dependency of a layout of the chain raised
C29_Witness ==
    /\ pc = "raised"
    /\ route.kind = "page"
    /\ IsResponse(page_result)
    /\ ~metadata_result.is_none
    /\ propagated.by = "layout"

\* the page carried the marker and the metadata resolver raised
C29_WitnessMarker ==
    /\ pc = "raised"
    /\ route.kind = "page"
    /\ IsWithoutLayout(page_result)
    /\ route.layout_dep # empty_layout_dependency
    /\ propagated.by = "metadata"

--------------------------------------------------------------------------
(* Properties of the order of the routes, under SpecRoutes *)

\* the place of a route among the routes of its node
RouteRank(r) ==
    IF r.kind = "api" THEN 1
    ELSE IF r.tags = <<"Page">> THEN 2
    ELSE IF r.tags = <<"Page", "Submit">> THEN 3
    ELSE IF StartsWith(r.name, ModuleName(r.dir, page_py) \o <<".">>) THEN 4
    ELSE 5

\* directory d lies below directory e
Below(d, e) == Len(d) > Len(e) /\ SubSeq(d, 1, Len(e)) = e

\* the nodes of the tree that hold the package of directory d
NodesOf(d) ==
    {id \in DOMAIN tree : tree[id].package # NoPackage
                           /\ tree[id].package.package_dir = d}

\* C30: in the routes of an application that was built, the routes of one
\* node stand in the order api routes, page GET, submit POST, actions of the
\* page module, actions of the actions module; no route of a node stands
\* before a route of a node above it; and every route is a route of a node
\* that holds a package, under the URL of that node.
C30_RoutesInFixedOrder ==
    pc = "serving" =>
        /\ \A i, j \in 1..Len(app_routes) :
              i < j =>
                /\ app_routes[i].dir = app_routes[j].dir =>
                      RouteRank(app_routes[i]) <= RouteRank(app_routes[j])
                /\ ~Below(app_routes[i].dir, app_routes[j].dir)
        /\ \A i \in 1..Len(app_routes) :
              /\ NodesOf(app_routes[i].dir) # {}
              /\ \A id \in NodesOf(app_routes[i].dir) :
                    StartsWith(app_routes[i].path, tree[id].url)
        /\ \A d \in DOMAIN modules :
              \A k \in 1..3 :
                  Cardinality({i \in 1..Len(app_routes) :
                                  app_routes[i].dir = d /\ RouteRank(app_routes[i]) = k}) <= 1

\* below a root without a package a node registered routes of all five
\* kinds, and the route of its child follows them
C30_Witness ==
    /\ pc = "serving"
    /\ tree[RootId].package = NoPackage
    /\ \A k \in 1..5 :
          \E i \in 1..Len(app_routes) :
              app_routes[i].dir = dir_a /\ RouteRank(app_routes[i]) = k
    /\ app_routes[Len(app_routes)].dir = dir_dyn
    /\ Len(app_routes) = 8

====
